---- MODULE Spec2Model ----
(***************************************************************************)
(* Khmer word segmenter (khmer-rs): the construction of the Dictionary,   *)
(* the Viterbi-style DP over codepoints, its three post-processing passes  *)
(* and the per-thread scratch buffers.                                     *)
(*                                                                         *)
(* Representation.                                                         *)
(*  - A Rust String / &str is a sequence of Unicode scalar values, so a    *)
(*    string is a TLA+ sequence of codepoint numbers; Vec<String> is a     *)
(*    sequence of such sequences.  A Vec<T> v is a sequence, v[k] of the   *)
(*    source is At(v, k) == v[k + 1].                                      *)
(*  - f32 costs are kept in exact tenths: 0.1 is 1, 1.0 is 10, 10.0 is 100.*)
(*    f32::INFINITY is the number INFINITY, larger than any path cost the  *)
(*    bounded inputs can reach.                                            *)
(*  - Option<f32> is a set with at most one element: {} is None.           *)
(***************************************************************************)
EXTENDS Integers, Sequences, FiniteSets, TLC

VARIABLES
    load,         \* Dictionary::new: its locals and where it stands
    dictionary,   \* KhmerSegmenter.dictionary: shared, read-only
    lines,        \* per worker thread: the input lines it has still to segment
    pc,           \* per thread: where its current segment() call stands
    text,         \* per thread: the argument of its current (last) call
    buf,          \* TL_BUFFERS: one ThreadLocalBuffers per thread-local slot
    i,            \* per thread: loop variable of the main DP loop
    curr,         \* per thread: cursor of the backtrack
    pass1_segments, \* per thread: local of segment_with_buffers
    pass2_segments, \* per thread: local of segment_with_buffers
    result        \* per thread: the Vec<String> its last call returned

vars == <<load, dictionary, lines, pc, text, buf, i, curr,
          pass1_segments, pass2_segments, result>>

(***************************************************************************)
(* Codepoints used by the code and by the bounded inputs.                  *)
(***************************************************************************)
ZWSP      == \H200B   \* zero-width space, stripped by segment
COENG     == \H17D2   \* subscript former
KA        == \H1780   \* base consonant, whitelisted single word
BA        == \H1794   \* base consonant, not whitelisted
DA        == \H178D   \* base consonant DA
TA        == \H178F   \* base consonant TA (whitelisted)
RO        == \H179A   \* base consonant RO (whitelisted)
QU        == \H17AC   \* independent vowel RYY (whitelisted)
AA        == \H17B6   \* dependent vowel
SIGN_I    == \H17B7   \* dependent vowel I
BANTOC    == \H17CB   \* sign
TOANDAKHIAT == \H17CD \* sign
SAMYOK    == \H17D0   \* sign (merge-with-next heuristic)
LEK_TOO   == \H17D7   \* repetition sign (separator)
KHAN      == \H17D4   \* Khmer punctuation (separator)
RIEL      == \H17DB   \* currency and separator
KDIGIT1   == \H17E1   \* Khmer digit one
KDIGIT2   == \H17E2   \* Khmer digit two
SPACE     == \H20
DOLLAR    == \H24
COMMA     == \H2C
DOT       == \H2E
DIGIT1    == \H31
DIGIT2    == \H32
LATIN_A   == \H61

(***************************************************************************)
(* constants.rs: character classes.                                        *)
(***************************************************************************)
is_khmer_char(c) ==
    (c >= \H1780 /\ c <= \H17FF) \/ (c >= \H19E0 /\ c <= \H19FF)

is_consonant(c) == c >= \H1780 /\ c <= \H17A2

is_independent_vowel(c) == c >= \H17A3 /\ c <= \H17B3

is_dependent_vowel(c) == c >= \H17B6 /\ c <= \H17C5

is_sign(c) == (c >= \H17C6 /\ c <= \H17D1) \/ c = \H17D3 \/ c = \H17DD

is_coeng(c) == c = \H17D2

is_digit(c) == (c >= \H30 /\ c <= \H39) \/ (c >= \H17E0 /\ c <= \H17E9)

\* '$' | U+17DB | U+20AC | U+00A3 | U+00A5
is_currency_symbol(c) == c \in {\H24, \H17DB, \H20AC, \HA3, \HA5}

\* ! ? . , ; : " ' ( ) [ ] { } - / << >> U+201C U+201D U+02DD $ % space
is_separator(c) ==
    \/ (c >= \H17D4 /\ c <= \H17DA)
    \/ c = \H17DB
    \/ c \in {\H21, \H3F, \H2E, \H2C, \H3B, \H3A, \H22, \H27, \H28, \H29,
              \H5B, \H5D, \H7B, \H7D, \H2D, \H2F, \HAB, \HBB, \H201C,
              \H201D, \H2DD, \H24, \H25, \H20}

\* the 15 consonants and the 8 independent vowels that stand alone as words
is_valid_single_word(c) ==
    \/ c \in {\H1780, \H1781, \H1782, \H1784, \H1785, \H1786, \H1789,
              \H178A, \H178F, \H1791, \H1796, \H179A, \H179B, \H179F,
              \H17A1}
    \/ c \in {\H17AC, \H17AE, \H17AA, \H17AF, \H17B1, \H17A6, \H17A7,
              \H17B3}

(***************************************************************************)
(* Vec and String helpers.                                                 *)
(***************************************************************************)
At(v, k) == v[k + 1]

\* v with v[k] = x
SetAt(v, k, x) == [v EXCEPT ![k + 1] = x]

\* cps[from..to].iter().collect()
Slice(v, from, to) == SubSeq(v, from + 1, to)

\* Vec::resize(new_len, value), called only to grow
Resize(v, new_len, value) ==
    IF Len(v) >= new_len THEN SubSeq(v, 1, new_len)
    ELSE v \o [k \in 1..(new_len - Len(v)) |-> value]

\* Vec::reverse
RECURSIVE Reverse(_)
Reverse(v) == IF v = <<>> THEN <<>> ELSE Append(Reverse(Tail(v)), Head(v))

\* [String]::concat
RECURSIVE Concat(_)
Concat(ss) == IF ss = <<>> THEN <<>> ELSE Head(ss) \o Concat(Tail(ss))

\* str::contains(char)
Contains(s, c) == \E k \in 1..Len(s) : s[k] = c

\* str::replace(c, "")
RECURSIVE RemoveChar(_, _)
RemoveChar(s, c) ==
    IF s = <<>> THEN <<>>
    ELSE IF Head(s) = c THEN RemoveChar(Tail(s), c)
    ELSE <<Head(s)>> \o RemoveChar(Tail(s), c)

(***************************************************************************)
(* dictionary.rs: the Dictionary as the segmenter sees it.                 *)
(* The trie is the set of its nodes, each node named by the path of        *)
(* codepoints that leads to it from the root <<>>.                         *)
(***************************************************************************)
RECURSIVE MaxCharLen(_)
\* load_words' recomputation of *max_len over the filtered words_set
MaxCharLen(words_set) ==
    IF words_set = {} THEN 0
    ELSE LET w == CHOOSE x \in words_set : TRUE
             rest == MaxCharLen(words_set \ {w})
         IN IF Len(w) > rest THEN Len(w) ELSE rest

\* calculate_costs when the frequency file does not exist:
\* (word_costs, default_cost, unknown_cost) = ({}, 10.0, 20.0)
DEFAULT_COST == 100
UNKNOWN_COST == 200

\* Dictionary::new, step 3: the words map, the costs and the trie
Dictionary_new(temp_words, word_costs_map, default_cost, unknown_cost) ==
    LET cost_of == [w \in temp_words |->
                       IF w \in DOMAIN word_costs_map THEN word_costs_map[w]
                       ELSE default_cost]
    IN [ words |-> temp_words,
         costs |-> cost_of,
         trie |-> [ nodes   |-> {<<>>} \cup
                                UNION {{SubSeq(w, 1, k) : k \in 1..Len(w)} :
                                       w \in temp_words},
                    is_word |-> temp_words,
                    cost    |-> cost_of ],
         max_word_length |-> MaxCharLen(temp_words),
         default_cost |-> default_cost,
         unknown_cost |-> unknown_cost ]

\* Dictionary::contains
contains(dict, word) == word \in dict.words

\* TrieNode::get_child: Some(child) or None
get_child(trie, node, c) ==
    IF Append(node, c) \in trie.nodes THEN {Append(node, c)} ELSE {}

RECURSIVE trie_walk(_, _, _, _, _)
\* the for loop of lookup_codepoints: Some(node reached) or None
trie_walk(trie, node, cps, k, end) ==
    IF k >= end THEN {node}
    ELSE LET child == get_child(trie, node, At(cps, k))
         IN IF child = {} THEN {}
            ELSE trie_walk(trie, CHOOSE x \in child : TRUE, cps, k + 1, end)

\* Dictionary::lookup_codepoints(cps, start, end): Some(cost) or None
lookup_codepoints(dict, cps, start, end) ==
    LET reached == trie_walk(dict.trie, <<>>, cps, start, end)
    IN IF reached = {} THEN {}
       ELSE LET node == CHOOSE x \in reached : TRUE
            IN IF node \in dict.trie.is_word THEN {dict.trie.cost[node]}
               ELSE {}

(***************************************************************************)
(* dictionary.rs: the construction of the Dictionary from the word list    *)
(* and the frequency file.  A HashSet<String> is a set of strings, a       *)
(* HashMap<String, f32> a function on its keys.  Counts are whole numbers; *)
(* -log10 of a ratio is kept in tenths, rounded down.                      *)
(***************************************************************************)
RECURSIVE trim_start(_)
trim_start(s) ==
    IF s # <<>> /\ Head(s) = SPACE THEN trim_start(Tail(s)) ELSE s

RECURSIVE trim_end(_)
trim_end(s) ==
    IF s # <<>> /\ s[Len(s)] = SPACE
    THEN trim_end(SubSeq(s, 1, Len(s) - 1))
    ELSE s

\* str::trim, for lines whose only white space is U+0020
trim(s) == trim_end(trim_start(s))

\* str::contains(pat) for the two-codepoint pattern <<a, b>>
contains_pair(w, a, b) ==
    \E k \in 1..(Len(w) - 1) : w[k] = a /\ w[k + 1] = b

RECURSIVE replace_pair(_, _, _, _)
\* str::replace(<<COENG, a>>, <<COENG, b>>) from index k on: every match,
\* left to right
replace_pair(w, k, a, b) ==
    IF k >= Len(w) THEN <<>>
    ELSE IF k + 1 < Len(w) /\ At(w, k) = COENG /\ At(w, k + 1) = a
         THEN <<COENG, b>> \o replace_pair(w, k + 2, a, b)
         ELSE <<At(w, k)>> \o replace_pair(w, k + 1, a, b)

RECURSIVE ro_pass_by_one(_, _, _)
\* a faulty ro_pass: the cursor advances by one after a swap as well
ro_pass_by_one(new_chars, k, ro_first) ==
    IF k + 3 < Len(new_chars)
    THEN LET c0 == At(new_chars, k)
             c1 == At(new_chars, k + 1)
             c2 == At(new_chars, k + 2)
             c3 == At(new_chars, k + 3)
         IN IF /\ c0 = COENG
               /\ c2 = COENG
               /\ IF ro_first THEN c1 = RO /\ c3 # RO
                              ELSE c1 # RO /\ c3 = RO
            THEN ro_pass_by_one(
                     SetAt(SetAt(SetAt(SetAt(new_chars, k, c2),
                                       k + 1, c3), k + 2, c0), k + 3, c1),
                     k + 1, ro_first)
            ELSE ro_pass_by_one(new_chars, k + 1, ro_first)
    ELSE new_chars

RECURSIVE ro_pass(_, _, _)
\* the while loops of generate_variants from cursor k.  Pass 1 (ro_first)
\* rewrites [Coeng, Ro, Coeng, NotRo], Pass 2 [Coeng, NotRo, Coeng, Ro];
\* the pairs are swapped and the cursor advances by 4, else by 1.
ro_pass(new_chars, k, ro_first) ==
    IF k + 3 < Len(new_chars)
    THEN LET c0 == At(new_chars, k)
             c1 == At(new_chars, k + 1)
             c2 == At(new_chars, k + 2)
             c3 == At(new_chars, k + 3)
         IN IF /\ c0 = COENG
               /\ c2 = COENG
               /\ IF ro_first THEN c1 = RO /\ c3 # RO
                              ELSE c1 # RO /\ c3 = RO
            THEN ro_pass(SetAt(SetAt(SetAt(SetAt(new_chars, k, c2),
                                           k + 1, c3), k + 2, c0), k + 3, c1),
                         k + 4, ro_first)
            ELSE ro_pass(new_chars, k + 1, ro_first)
    ELSE new_chars

\* Dictionary::generate_variants
generate_variants(word) ==
    LET ta_da == (IF contains_pair(word, COENG, TA)
                  THEN {replace_pair(word, 0, TA, DA)} ELSE {})
                 \cup (IF contains_pair(word, COENG, DA)
                       THEN {replace_pair(word, 0, DA, TA)} ELSE {})
        base_set == ta_da \cup {word}
        ro(w) == IF Len(w) < 4 THEN {}
                 ELSE {ro_pass(w, 0, TRUE), ro_pass(w, 0, FALSE)} \ {w}
    IN ta_da \cup UNION {ro(w) : w \in base_set}

\* a faulty keep_line: no filter on single characters
keep_line_any_single(word) == word # <<>>

\* load_words: the line is not skipped (not empty, and not a single
\* character outside the whitelist)
keep_line(word) ==
    /\ word # <<>>
    /\ ~(Len(word) = 1 /\ ~is_valid_single_word(word[1]))

\* the larger of two lengths
Longer(a, b) == IF a > b THEN a ELSE b

\* load_words: the body of the loop over the lines of the word list
load_line(st, line) ==
    LET word == trim(line)
        added == {word} \cup generate_variants(word)
    IN IF keep_line(word)
       THEN [st EXCEPT !.words_set = @ \cup added,
                       !.max_len = Longer(@, MaxCharLen(added))]
       ELSE st

RECURSIVE split(_, _)
\* str::split(c): the parts between the occurrences of c
split(w, c) ==
    IF ~Contains(w, c) THEN <<w>>
    ELSE LET k == CHOOSE j \in 1..Len(w) :
                      w[j] = c /\ \A j2 \in 1..(j - 1) : w[j2] # c
         IN <<SubSeq(w, 1, k - 1)>> \o split(SubSeq(w, k + 1, Len(w)), c)

\* load_words, filter logic: the test on a word that contains U+17AC and
\* has more than one character
ryy_decomposes(words_set, word) ==
    IF Head(word) = QU
    THEN Tail(word) \in words_set
    ELSE IF word[Len(word)] = QU
         THEN SubSeq(word, 1, Len(word) - 1) \in words_set
         ELSE LET parts == split(word, QU)
              IN \A k \in 1..Len(parts) :
                     parts[k] \in words_set \/ parts[k] = <<>>

\* a faulty to_remove: a leading coeng is let through
to_remove_no_coeng(words_set, word) ==
    \/ (Contains(word, QU) /\ Len(word) > 1 /\ ryy_decomposes(words_set, word))
    \/ Contains(word, LEK_TOO)

\* load_words, filter logic: the word is inserted into words_to_remove
to_remove(words_set, word) ==
    \/ (Contains(word, QU) /\ Len(word) > 1 /\ ryy_decomposes(words_set, word))
    \/ Contains(word, LEK_TOO)
    \/ Head(word) = COENG

\* a faulty recompute_max_len: the length found while loading is kept
keep_max_len(words_set, max_len) == max_len

\* load_words: *max_len = 0, then the maximum over the words left
recompute_max_len(words_set, max_len) == MaxCharLen(words_set)

\* load_words: the removals and the recomputation of max_len
remove_words(st) ==
    LET left == (st.words_set \ st.words_to_remove) \ {<<LEK_TOO>>}
    IN [st EXCEPT !.words_set = left,
                  !.max_len = recompute_max_len(left, @)]

\* calculate_costs: min_freq_floor
MIN_FREQ_FLOOR == 5

\* f32::max(count, min_freq_floor)
floor_count(count) == IF count > MIN_FREQ_FLOOR THEN count ELSE MIN_FREQ_FLOOR

\* HashMap::insert
insert(map, key, value) ==
    [k \in DOMAIN map \cup {key} |-> IF k = key THEN value ELSE map[k]]

\* HashMap::entry(key).or_insert(value) for every key of keys
or_insert_all(map, keys, value) ==
    [k \in DOMAIN map \cup keys |-> IF k \in DOMAIN map THEN map[k] ELSE value]

\* a faulty count_entry: the key itself is entered with or_insert
count_entry_or_insert(st, word, count) ==
    LET eff == floor_count(count)
    IN [st EXCEPT
          !.effective_counts =
              or_insert_all(or_insert_all(@, {word}, eff),
                            generate_variants(word), eff),
          !.total_tokens = @ + eff,
          !.order = Append(@, word)]

\* calculate_costs: the body of the loop over the entries of the
\* frequency file
count_entry(st, word, count) ==
    LET eff == floor_count(count)
    IN [st EXCEPT
          !.effective_counts =
              or_insert_all(insert(@, word, eff),
                            generate_variants(word), eff),
          !.total_tokens = @ + eff,
          !.order = Append(@, word)]

\* 1000 * 10^(k / 10), k in 0..29
pow10_tenths(k) ==
    <<1000, 1259, 1585, 1995, 2512, 3162, 3981, 5012, 6310, 7943>>[(k % 10) + 1]
    * <<1, 10, 100>>[(k \div 10) + 1]

\* -(num / den).log10() in tenths, rounded down, for 0 < num <= den < 1000 num
neg_log10(num, den) ==
    CHOOSE k \in 0..29 :
        /\ pow10_tenths(k) * num <= 1000 * den
        /\ \A k2 \in (k + 1)..29 : pow10_tenths(k2) * num > 1000 * den

\* calculate_costs after the loop: (word_costs, default_cost, unknown_cost)
calculate_costs(st) ==
    IF st.has_freq /\ st.total_tokens > 0
    THEN LET default_cost == neg_log10(MIN_FREQ_FLOOR, st.total_tokens)
             kept == {w \in DOMAIN st.effective_counts :
                         w \in st.words_set /\ st.effective_counts[w] > 0}
         IN <<[w \in kept |->
                   neg_log10(st.effective_counts[w], st.total_tokens)],
              default_cost, default_cost + 50>>
    ELSE <<<<>>, DEFAULT_COST, UNKNOWN_COST>>

\* Dictionary::new: steps 2 and 3, with the max_word_length that
\* load_words left
build(st) ==
    LET costs == calculate_costs(st)
    IN [Dictionary_new(st.words_set, costs[1], costs[2], costs[3])
          EXCEPT !.max_word_length = st.max_len]

(***************************************************************************)
(* segmenter.rs: the codepoint helpers.                                    *)
(***************************************************************************)
\* s.chars().next().unwrap_or(' ')
get_first_char(s) == IF s = <<>> THEN SPACE ELSE s[1]

\* (first char or ' ', number of codepoints)
get_first_char_and_len(s) == <<get_first_char(s), Len(s)>>

RECURSIVE cluster_scan_any_coeng(_, _, _)
\* a faulty cluster_scan: a coeng is taken like a sign, whatever follows it
cluster_scan_any_coeng(cps, k, len) ==
    IF k < Len(cps)
    THEN LET c == At(cps, k)
         IN IF is_coeng(c) \/ is_dependent_vowel(c) \/ is_sign(c)
            THEN cluster_scan_any_coeng(cps, k + 1, len + 1)
            ELSE len
    ELSE len

RECURSIVE cluster_scan_unchecked(_, _, _)
\* a faulty cluster_scan: a coeng takes the next codepoint with it without
\* looking whether there is one
cluster_scan_unchecked(cps, k, len) ==
    IF k < Len(cps)
    THEN LET c == At(cps, k)
         IN IF is_coeng(c)
            THEN cluster_scan_unchecked(cps, k + 2, len + 2)
            ELSE IF is_dependent_vowel(c) \/ is_sign(c)
                 THEN cluster_scan_unchecked(cps, k + 1, len + 1)
                 ELSE len
    ELSE len

RECURSIVE cluster_scan(_, _, _)
\* the while loop of get_khmer_cluster_length_cps, at index k with len so far
cluster_scan(cps, k, len) ==
    IF k < Len(cps)
    THEN LET c == At(cps, k)
         IN IF is_coeng(c)
            THEN IF k + 1 < Len(cps) /\ is_consonant(At(cps, k + 1))
                 THEN cluster_scan(cps, k + 2, len + 2)
                 ELSE len
            ELSE IF is_dependent_vowel(c) \/ is_sign(c)
                 THEN cluster_scan(cps, k + 1, len + 1)
                 ELSE len
    ELSE len

get_khmer_cluster_length_cps(cps, start) ==
    IF start >= Len(cps) THEN 0
    ELSE IF ~(At(cps, start) >= \H1780 /\ At(cps, start) <= \H17B3) THEN 1
    ELSE cluster_scan(cps, start + 1, 1)

\* a faulty get_number_length_cps: a number is one digit, nothing is grouped
get_number_length_one(cps, start) ==
    IF start >= Len(cps) THEN 0
    ELSE IF ~is_digit(At(cps, start)) THEN 0
    ELSE 1

RECURSIVE number_scan_any_sep(_, _, _, _)
\* a faulty number_scan: a separator is taken without looking at what
\* follows it
number_scan_any_sep(cps, start, k, last_valid_len) ==
    IF k < Len(cps)
    THEN LET c == At(cps, k)
         IN IF is_digit(c)
            THEN number_scan_any_sep(cps, start, k + 1, k - start + 1)
            ELSE IF c = COMMA \/ c = DOT \/ c = SPACE
                 THEN number_scan_any_sep(cps, start, k + 2, k - start + 2)
                 ELSE last_valid_len
    ELSE last_valid_len

RECURSIVE number_scan(_, _, _, _)
\* the while loop of get_number_length_cps, at index k
number_scan(cps, start, k, last_valid_len) ==
    IF k < Len(cps)
    THEN LET c == At(cps, k)
         IN IF is_digit(c)
            THEN number_scan(cps, start, k + 1, k - start + 1)
            ELSE IF (c = COMMA \/ c = DOT \/ c = SPACE)
                    /\ k + 1 < Len(cps) /\ is_digit(At(cps, k + 1))
                 THEN number_scan(cps, start, k + 2, k - start + 2)
                 ELSE last_valid_len
    ELSE last_valid_len

get_number_length_cps(cps, start) ==
    IF start >= Len(cps) THEN 0
    ELSE IF ~is_digit(At(cps, start)) THEN 0
    ELSE number_scan(cps, start, start + 1, 1)

\* a faulty acronym_scan: one (cluster, '.') group only
acronym_scan_one_group(cps, current) ==
    LET cluster_len == get_khmer_cluster_length_cps(cps, current)
        dot_index == current + cluster_len
    IN IF cluster_len > 0 /\ dot_index < Len(cps) /\ At(cps, dot_index) = DOT
       THEN dot_index + 1
       ELSE current

RECURSIVE acronym_scan(_, _)
\* the loop of get_acronym_length_cps: the final value of current
acronym_scan(cps, current) ==
    LET cluster_len == get_khmer_cluster_length_cps(cps, current)
        dot_index == current + cluster_len
    IN IF cluster_len > 0 /\ dot_index < Len(cps) /\ At(cps, dot_index) = DOT
       THEN IF dot_index + 1 >= Len(cps) THEN dot_index + 1
            ELSE acronym_scan(cps, dot_index + 1)
       ELSE current

get_acronym_length_cps(cps, start) == acronym_scan(cps, start) - start

is_acronym_start_cps(cps, start) ==
    IF start >= Len(cps) THEN FALSE
    ELSE LET cluster_len == get_khmer_cluster_length_cps(cps, start)
             dot_index == start + cluster_len
         IN IF cluster_len = 0 THEN FALSE
            ELSE IF dot_index >= Len(cps) THEN FALSE
            ELSE At(cps, dot_index) = DOT

(***************************************************************************)
(* segmenter.rs: the scratch buffers and the DP over codepoints.           *)
(***************************************************************************)
\* f32::INFINITY, in tenths: above every cost a bounded input can reach
INFINITY == 1000000

ThreadLocalBuffers_new ==
    [ codepoints |-> <<>>, dp_cost |-> <<>>, dp_parent |-> <<>>,
      segments |-> <<>> ]

\* a faulty TlsSlot: one static buffer set shared by every thread
SharedSlot(t) == 1

\* thread_local!: each thread has its own TL_BUFFERS slot
TlsSlot(t) == t

\* a faulty strip_zwsp: the U+200B are left in
strip_nothing(t) == t

\* segment: text with every U+200B removed (text itself when it has none)
strip_zwsp(t) == IF ~Contains(t, ZWSP) THEN t ELSE RemoveChar(t, ZWSP)

\* for i in 0..=n { v[i] = value }
reset_prefix(v, n, value) ==
    [k \in 1..Len(v) |-> IF k - 1 <= n THEN value ELSE v[k]]

\* a faulty fill_and_reset: the first n + 1 entries are not reset
fill_no_reset(b, text_raw) ==
    LET n == Len(text_raw)
        grow == Len(b.dp_cost) < n + 1
        cost0 == IF grow THEN Resize(b.dp_cost, n + 1, INFINITY)
                 ELSE b.dp_cost
        parent0 == IF grow THEN Resize(b.dp_parent, n + 1, -1)
                   ELSE b.dp_parent
    IN [ b EXCEPT !.codepoints = text_raw,
                  !.dp_cost = SetAt(cost0, 0, 0),
                  !.dp_parent = parent0 ]

\* segment_with_buffers up to the main loop: fill the codepoint buffer,
\* grow the DP arrays if needed and reset their first n + 1 entries
fill_and_reset(b, text_raw) ==
    LET n == Len(text_raw)
        grow == Len(b.dp_cost) < n + 1
        cost0 == IF grow THEN Resize(b.dp_cost, n + 1, INFINITY)
                 ELSE b.dp_cost
        parent0 == IF grow THEN Resize(b.dp_parent, n + 1, -1)
                   ELSE b.dp_parent
    IN [ b EXCEPT !.codepoints = text_raw,
                  !.dp_cost = SetAt(reset_prefix(cost0, n, INFINITY), 0, 0),
                  !.dp_parent = reset_prefix(parent0, n, -1) ]

\* if next_idx <= n && new_cost < dp_cost[next_idx] { record the step }
relax(b, idx, next_idx, new_cost) ==
    IF next_idx <= Len(b.codepoints) /\ new_cost < At(b.dp_cost, next_idx)
    THEN [ b EXCEPT !.dp_cost = SetAt(@, next_idx, new_cost),
                    !.dp_parent = SetAt(@, next_idx, idx) ]
    ELSE b

\* the repair gate: previous codepoint is the coeng, or this one is a
\* dependent vowel
force_repair(cps, idx) ==
    \/ (idx > 0 /\ At(cps, idx - 1) = COENG)
    \/ is_dependent_vowel(At(cps, idx))

\* recovery mode: one codepoint at unknown_cost + 50.0
repair_transition(dict, b, idx) ==
    relax(b, idx, idx + 1, At(b.dp_cost, idx) + dict.unknown_cost + 500)

\* 1. number / digit grouping (and currency), step_cost 1.0
number_transition(dict, b, idx) ==
    LET cps == b.codepoints
        c == At(cps, idx)
        is_digit_char == is_digit(c)
        is_curr == IF is_currency_symbol(c)
                   THEN IF idx + 1 < Len(cps) THEN is_digit(At(cps, idx + 1))
                        ELSE FALSE
                   ELSE FALSE
    IN IF is_digit_char \/ is_curr
       THEN relax(b, idx, idx + get_number_length_cps(cps, idx),
                  At(b.dp_cost, idx) + 10)
       ELSE b

\* 2. separators, step_cost 0.1
separator_transition(dict, b, idx) ==
    IF is_separator(At(b.codepoints, idx))
    THEN relax(b, idx, idx + 1, At(b.dp_cost, idx) + 1)
    ELSE b

\* 3. acronyms, step_cost 1.0
acronym_transition(dict, b, idx) ==
    IF is_acronym_start_cps(b.codepoints, idx)
    THEN relax(b, idx, idx + get_acronym_length_cps(b.codepoints, idx),
               At(b.dp_cost, idx) + 10)
    ELSE b

RECURSIVE dictionary_scan(_, _, _, _, _, _)
\* 4. for j in (i + 1)..=end_limit: relax cost[j] when cps[i..j] is a word.
\* current_cost is the cost[i] read before the transitions began.
dictionary_scan(dict, b, idx, current_cost, j, end_limit) ==
    IF j > end_limit THEN b
    ELSE LET word_cost == lookup_codepoints(dict, b.codepoints, idx, j)
             b1 == IF word_cost = {} THEN b
                   ELSE relax(b, idx, j,
                              current_cost + (CHOOSE x \in word_cost : TRUE))
         IN dictionary_scan(dict, b1, idx, current_cost, j + 1, end_limit)

dictionary_transition(dict, b, idx) ==
    LET n == Len(b.codepoints)
        end_limit == IF idx + dict.max_word_length < n
                     THEN idx + dict.max_word_length ELSE n
    IN dictionary_scan(dict, b, idx, At(b.dp_cost, idx), idx + 1, end_limit)

\* a faulty fallback_transition: no step for a non-Khmer codepoint
fallback_khmer_only(dict, b, idx) ==
    LET cps == b.codepoints
        c == At(cps, idx)
        current_cost == At(b.dp_cost, idx)
    IN IF is_khmer_char(c)
       THEN LET len_cps == get_khmer_cluster_length_cps(cps, idx)
                step_cost == IF len_cps = 1 /\ ~is_valid_single_word(c)
                             THEN dict.unknown_cost + 100
                             ELSE dict.unknown_cost
            IN relax(b, idx, idx + len_cps, current_cost + step_cost)
       ELSE b

\* 5. unknown cluster fallback (Khmer), or one codepoint (non-Khmer)
fallback_transition(dict, b, idx) ==
    LET cps == b.codepoints
        c == At(cps, idx)
        current_cost == At(b.dp_cost, idx)
    IN IF is_khmer_char(c)
       THEN LET len_cps == get_khmer_cluster_length_cps(cps, idx)
                step_cost == IF len_cps = 1 /\ ~is_valid_single_word(c)
                             THEN dict.unknown_cost + 100
                             ELSE dict.unknown_cost
            IN relax(b, idx, idx + len_cps, current_cost + step_cost)
       ELSE relax(b, idx, idx + 1, current_cost + dict.unknown_cost)

\* a faulty process_position: the repair gate does not skip the normal
\* transitions
process_no_continue(dict, b, idx) ==
    IF At(b.dp_cost, idx) = INFINITY THEN b
    ELSE LET b0 == IF force_repair(b.codepoints, idx)
                   THEN repair_transition(dict, b, idx)
                   ELSE b
         IN fallback_transition(dict,
              dictionary_transition(dict,
                acronym_transition(dict,
                  separator_transition(dict,
                    number_transition(dict, b0, idx), idx), idx), idx), idx)

\* the body of the main loop for position idx
process_position(dict, b, idx) ==
    IF At(b.dp_cost, idx) = INFINITY THEN b
    ELSE IF force_repair(b.codepoints, idx)
         THEN repair_transition(dict, b, idx)
         ELSE fallback_transition(dict,
                dictionary_transition(dict,
                  acronym_transition(dict,
                    separator_transition(dict,
                      number_transition(dict, b, idx), idx), idx), idx), idx)

\* one iteration of the backtrack loop body, for a parent prev /= -1:
\* push cps[prev..curr]
push_segment(b, prev, cur) ==
    [ b EXCEPT !.segments = Append(@, Slice(b.codepoints, prev, cur)) ]

(***************************************************************************)
(* Post-processing.  Pass 1: segmenter.rs, snap_invalid_single_consonants. *)
(***************************************************************************)
Last(v) == v[Len(v)]

\* v after Vec::pop
Front(v) == SubSeq(v, 1, Len(v) - 1)

\* is_separator(first char) || seg == " " || seg == "\u{200b}"
is_sep_segment(seg) ==
    is_separator(get_first_char(seg)) \/ seg = <<SPACE>> \/ seg = <<ZWSP>>

is_invalid_single(dict, seg) ==
    LET first_char == get_first_char_and_len(seg)[1]
        seg_len == get_first_char_and_len(seg)[2]
    IN /\ seg_len = 1
       /\ ~is_valid_single_word(first_char)
       /\ ~contains(dict, seg)
       /\ ~is_digit(first_char)
       /\ ~is_separator(first_char)

\* a faulty snap_one: an invalid single is never merged backwards
snap_one_never_merge(dict, segments, j, pass1) ==
    Append(pass1, At(segments, j))

\* a faulty snap_one: the snap pops the previous token and loses it
snap_one_drop_prev(dict, segments, j, pass1) ==
    LET seg == At(segments, j)
        prev_is_sep == IF pass1 # <<>> THEN is_sep_segment(Last(pass1))
                       ELSE j = 0
        next_is_sep == IF j + 1 < Len(segments)
                       THEN is_sep_segment(At(segments, j + 1))
                       ELSE TRUE
    IN IF is_invalid_single(dict, seg)
       THEN IF prev_is_sep /\ next_is_sep THEN Append(pass1, seg)
            ELSE IF pass1 # <<>>
                 THEN IF ~is_separator(get_first_char(Last(pass1)))
                      THEN Append(Front(pass1), seg)
                      ELSE Append(pass1, seg)
                 ELSE Append(pass1, seg)
       ELSE Append(pass1, seg)

\* a faulty snap_one: an invalid single before a separator or at the end
\* is left alone, whatever precedes it
snap_one_next_only(dict, segments, j, pass1) ==
    LET seg == At(segments, j)
        next_is_sep == IF j + 1 < Len(segments)
                       THEN is_sep_segment(At(segments, j + 1))
                       ELSE TRUE
    IN IF is_invalid_single(dict, seg)
       THEN IF next_is_sep THEN Append(pass1, seg)
            ELSE IF pass1 # <<>>
                 THEN IF ~is_separator(get_first_char(Last(pass1)))
                      THEN Append(Front(pass1), Last(pass1) \o seg)
                      ELSE Append(pass1, seg)
                 ELSE Append(pass1, seg)
       ELSE Append(pass1, seg)

\* the body of the loop for segment j, given the output so far
snap_one(dict, segments, j, pass1) ==
    LET seg == At(segments, j)
        prev_is_sep == IF pass1 # <<>> THEN is_sep_segment(Last(pass1))
                       ELSE j = 0
        next_is_sep == IF j + 1 < Len(segments)
                       THEN is_sep_segment(At(segments, j + 1))
                       ELSE TRUE
    IN IF is_invalid_single(dict, seg)
       THEN IF prev_is_sep /\ next_is_sep THEN Append(pass1, seg)
            ELSE IF pass1 # <<>>
                 THEN IF ~is_separator(get_first_char(Last(pass1)))
                      THEN Append(Front(pass1), Last(pass1) \o seg)
                      ELSE Append(pass1, seg)
                 ELSE Append(pass1, seg)
       ELSE Append(pass1, seg)

RECURSIVE snap_loop(_, _, _, _)
snap_loop(dict, segments, j, pass1) ==
    IF j >= Len(segments) THEN pass1
    ELSE snap_loop(dict, segments, j + 1, snap_one(dict, segments, j, pass1))

snap_invalid_single_consonants_fast(dict, segments) ==
    snap_loop(dict, segments, 0, <<>>)

(***************************************************************************)
(* Pass 2: heuristics.rs, apply_heuristics_string.                         *)
(***************************************************************************)
\* the k-th char of s (from 0), or ' ' when s is shorter
char_or_space(s, k) == IF k < Len(s) THEN At(s, k) ELSE SPACE

\* number of codepoints after the first m
rest_count(s, m) == IF Len(s) > m THEN Len(s) - m ELSE 0

\* (c0, c1, count): a ' ' among the first two is not counted
get_chars_2(s) ==
    LET c0 == char_or_space(s, 0)
        c1 == char_or_space(s, 1)
    IN <<c0, c1,
         (IF c0 # SPACE THEN 1 ELSE 0) + (IF c1 # SPACE THEN 1 ELSE 0)
           + rest_count(s, 2)>>

\* (c0, c1, c2, count): a ' ' among the first three is not counted
get_chars_3(s) ==
    LET c0 == char_or_space(s, 0)
        c1 == char_or_space(s, 1)
        c2 == char_or_space(s, 2)
    IN <<c0, c1, c2,
         (IF c0 # SPACE THEN 1 ELSE 0) + (IF c1 # SPACE THEN 1 ELSE 0)
           + (IF c2 # SPACE THEN 1 ELSE 0) + rest_count(s, 3)>>

\* Rule 1 applies to curr: consonant + one of U+17CB/U+17CE/U+17CF, or
\* consonant + U+17B7 + U+17CD
merges_with_previous(seg) ==
    LET g == get_chars_3(seg)
        is_cons == g[1] >= \H1780 /\ g[1] <= \H17A2
    IN \/ (g[4] = 2 /\ is_cons /\ g[2] \in {\H17CB, \H17CE, \H17CF})
       \/ (g[4] = 3 /\ is_cons /\ g[2] = \H17B7 /\ g[3] = \H17CD)

\* Rule 2 applies to curr: consonant + U+17D0
merges_with_next(seg) ==
    LET g == get_chars_2(seg)
        is_cons == g[1] >= \H1780 /\ g[1] <= \H17A2
    IN g[3] = 2 /\ is_cons /\ g[2] = \H17D0

RECURSIVE heuristics_loop_skip_sep(_, _, _, _)
\* a faulty heuristics_loop: Rule 1 does not merge into a separator token
heuristics_loop_skip_sep(dict, segments, k, merged) ==
    IF k >= Len(segments) THEN merged
    ELSE LET seg == At(segments, k)
         IN IF contains(dict, seg)
            THEN heuristics_loop_skip_sep(dict, segments, k + 1,
                                          Append(merged, seg))
            ELSE IF /\ merged # <<>>
                    /\ merges_with_previous(seg)
                    /\ ~is_separator(get_first_char(Last(merged)))
            THEN heuristics_loop_skip_sep(dict, segments, k + 1,
                     Append(Front(merged), Last(merged) \o seg))
            ELSE IF k + 1 < Len(segments) /\ merges_with_next(seg)
            THEN heuristics_loop_skip_sep(dict, segments, k + 2,
                     Append(merged, seg \o At(segments, k + 1)))
            ELSE heuristics_loop_skip_sep(dict, segments, k + 1,
                                          Append(merged, seg))

RECURSIVE heuristics_loop(_, _, _, _)
\* the while loop, at index k with the output merged so far
heuristics_loop(dict, segments, k, merged) ==
    IF k >= Len(segments) THEN merged
    ELSE LET seg == At(segments, k)
         IN IF contains(dict, seg)
            THEN heuristics_loop(dict, segments, k + 1, Append(merged, seg))
            ELSE IF merged # <<>> /\ merges_with_previous(seg)
            THEN heuristics_loop(dict, segments, k + 1,
                                 Append(Front(merged), Last(merged) \o seg))
            ELSE IF k + 1 < Len(segments) /\ merges_with_next(seg)
            THEN heuristics_loop(dict, segments, k + 2,
                                 Append(merged, seg \o At(segments, k + 1)))
            ELSE heuristics_loop(dict, segments, k + 1, Append(merged, seg))

apply_heuristics_string(segments, dict) ==
    heuristics_loop(dict, segments, 0, <<>>)

(***************************************************************************)
(* Pass 3: heuristics.rs, post_process_unknowns_string.                    *)
(***************************************************************************)
\* s.chars().next().unwrap_or(' ')
first_char(s) == IF s = <<>> THEN SPACE ELSE s[1]

\* s.chars().count()
char_count(s) == Len(s)

is_known(dict, seg) ==
    LET first == first_char(seg)
        count == char_count(seg)
    IN IF is_digit(first) THEN TRUE
       ELSE IF contains(dict, seg) THEN TRUE
       ELSE IF count = 1 /\ is_valid_single_word(first) THEN TRUE
       ELSE IF count = 1 /\ is_separator(first) THEN TRUE
       ELSE IF Contains(seg, DOT) /\ count >= 2 THEN TRUE
       ELSE FALSE

\* a faulty flush_unknown: the buffer is flushed even when it is empty
flush_always(final_segments, unknown_buffer) ==
    Append(final_segments, Concat(unknown_buffer))

\* if !unknown_buffer.is_empty() { final_segments.push(concat); clear }
flush_unknown(final_segments, unknown_buffer) ==
    IF unknown_buffer # <<>>
    THEN Append(final_segments, Concat(unknown_buffer))
    ELSE final_segments

RECURSIVE unknowns_loop_no_final_flush(_, _, _, _)
\* a faulty unknowns_loop: the buffer is not flushed after the scan
unknowns_loop_no_final_flush(dict, rest, final_segments, unknown_buffer) ==
    IF rest = <<>> THEN final_segments
    ELSE LET seg == Head(rest)
         IN IF is_known(dict, seg)
            THEN unknowns_loop_no_final_flush(dict, Tail(rest),
                     Append(flush_unknown(final_segments, unknown_buffer), seg),
                     <<>>)
            ELSE unknowns_loop_no_final_flush(dict, Tail(rest), final_segments,
                                              Append(unknown_buffer, seg))

RECURSIVE unknowns_loop(_, _, _, _)
\* the for loop over pass2_segments (the rest still to read)
unknowns_loop(dict, rest, final_segments, unknown_buffer) ==
    IF rest = <<>> THEN flush_unknown(final_segments, unknown_buffer)
    ELSE LET seg == Head(rest)
         IN IF is_known(dict, seg)
            THEN unknowns_loop(dict, Tail(rest),
                     Append(flush_unknown(final_segments, unknown_buffer), seg),
                     <<>>)
            ELSE unknowns_loop(dict, Tail(rest), final_segments,
                               Append(unknown_buffer, seg))

post_process_unknowns_string(pass2, dict) ==
    unknowns_loop(dict, pass2, <<>>, <<>>)

(***************************************************************************)
(* segment as one function: the same steps run to completion on a given    *)
(* buffer set.  segment_fresh is a call on ThreadLocalBuffers::new().      *)
(***************************************************************************)
RECURSIVE dp_loop(_, _, _)
dp_loop(dict, b, k) ==
    IF k >= Len(b.codepoints) THEN b
    ELSE dp_loop(dict, process_position(dict, b, k), k + 1)

RECURSIVE backtrack_loop(_, _)
backtrack_loop(b, cur) ==
    IF cur > 0
    THEN LET prev == At(b.dp_parent, cur)
         IN IF prev = -1 THEN b
            ELSE backtrack_loop(push_segment(b, prev, cur), prev)
    ELSE b

segment_with_buffers(dict, text_raw, b) ==
    LET b1 == dp_loop(dict, fill_and_reset(b, text_raw), 0)
        b2 == backtrack_loop([b1 EXCEPT !.segments = <<>>], Len(text_raw))
        segments == Reverse(b2.segments)
    IN post_process_unknowns_string(
           apply_heuristics_string(
               snap_invalid_single_consonants_fast(dict, segments), dict),
           dict)

segment_fresh(dict, t) ==
    IF strip_zwsp(t) = <<>> THEN <<>>
    ELSE segment_with_buffers(dict, strip_zwsp(t), ThreadLocalBuffers_new)

(***************************************************************************)
(* The state machine.  A worker thread t takes the next of its lines and   *)
(* calls segment on it; the call advances one loop iteration or one pass   *)
(* at a time on the thread's own TL_BUFFERS slot.                          *)
(***************************************************************************)
Threads == DOMAIN lines

MyBuf(t) == buf[TlsSlot(t)]

\* segment + segment_raw + the head of segment_with_buffers
Segment(t) ==
    /\ load.pc = "ready"
    /\ pc[t] \in {"idle", "done"}
    /\ lines[t] # <<>>
    /\ LET arg == Head(lines[t])
           text_raw == strip_zwsp(arg)
       IN /\ text' = [text EXCEPT ![t] = arg]
          /\ lines' = [lines EXCEPT ![t] = Tail(@)]
          /\ pass1_segments' = [pass1_segments EXCEPT ![t] = <<>>]
          /\ pass2_segments' = [pass2_segments EXCEPT ![t] = <<>>]
          /\ result' = [result EXCEPT ![t] = <<>>]
          /\ i' = [i EXCEPT ![t] = 0]
          /\ curr' = [curr EXCEPT ![t] = 0]
          /\ IF text_raw = <<>>
             THEN /\ pc' = [pc EXCEPT ![t] = "done"]
                  /\ UNCHANGED buf
             ELSE /\ pc' = [pc EXCEPT ![t] = "dp"]
                  /\ buf' = [buf EXCEPT
                               ![TlsSlot(t)] = fill_and_reset(@, text_raw)]
    /\ UNCHANGED <<load, dictionary>>

\* one iteration of for i in 0..n
DpStep(t) ==
    /\ pc[t] = "dp"
    /\ i[t] < Len(MyBuf(t).codepoints)
    /\ buf' = [buf EXCEPT
                 ![TlsSlot(t)] = process_position(dictionary, @, i[t])]
    /\ i' = [i EXCEPT ![t] = @ + 1]
    /\ UNCHANGED <<load, dictionary, lines, pc, text, curr,
                   pass1_segments, pass2_segments, result>>

\* the main loop is over: segments.clear(); curr = n
BeginBacktrack(t) ==
    /\ pc[t] = "dp"
    /\ i[t] >= Len(MyBuf(t).codepoints)
    /\ buf' = [buf EXCEPT ![TlsSlot(t)].segments = <<>>]
    /\ curr' = [curr EXCEPT ![t] = Len(MyBuf(t).codepoints)]
    /\ pc' = [pc EXCEPT ![t] = IF Len(MyBuf(t).codepoints) > 0
                               THEN "backtrack" ELSE "reverse"]
    /\ UNCHANGED <<load, dictionary, lines, text, i,
                   pass1_segments, pass2_segments, result>>

\* one iteration of while curr > 0, with its break on parent == -1
BacktrackStep(t) ==
    /\ pc[t] = "backtrack"
    /\ LET prev == At(MyBuf(t).dp_parent, curr[t])
       IN IF prev = -1
          THEN /\ pc' = [pc EXCEPT ![t] = "reverse"]
               /\ UNCHANGED <<buf, curr>>
          ELSE /\ buf' = [buf EXCEPT
                            ![TlsSlot(t)] = push_segment(@, prev, curr[t])]
               /\ curr' = [curr EXCEPT ![t] = prev]
               /\ pc' = [pc EXCEPT ![t] = IF prev > 0 THEN "backtrack"
                                          ELSE "reverse"]
    /\ UNCHANGED <<load, dictionary, lines, text, i,
                   pass1_segments, pass2_segments, result>>

\* segments.reverse(); clone; Pass 1
Pass1(t) ==
    /\ pc[t] = "reverse"
    /\ buf' = [buf EXCEPT ![TlsSlot(t)].segments = Reverse(@)]
    /\ pass1_segments' =
           [pass1_segments EXCEPT
              ![t] = snap_invalid_single_consonants_fast(
                         dictionary, Reverse(MyBuf(t).segments))]
    /\ pc' = [pc EXCEPT ![t] = "pass2"]
    /\ UNCHANGED <<load, dictionary, lines, text, i, curr, pass2_segments, result>>

Pass2(t) ==
    /\ pc[t] = "pass2"
    /\ pass2_segments' =
           [pass2_segments EXCEPT
              ![t] = apply_heuristics_string(pass1_segments[t], dictionary)]
    /\ pc' = [pc EXCEPT ![t] = "pass3"]
    /\ UNCHANGED <<load, dictionary, lines, text, buf, i, curr, pass1_segments,
                   result>>

\* Pass 3 and the return of segment
Pass3(t) ==
    /\ pc[t] = "pass3"
    /\ result' =
           [result EXCEPT
              ![t] = post_process_unknowns_string(pass2_segments[t],
                                                  dictionary)]
    /\ pc' = [pc EXCEPT ![t] = "done"]
    /\ UNCHANGED <<load, dictionary, lines, text, buf, i, curr, pass1_segments,
                   pass2_segments>>

\* load_words: one iteration of the loop over the lines of the word list
LoadLine ==
    /\ load.pc = "load"
    /\ load' = [load_line(load, load.dict_file[load.line + 1]) EXCEPT
                  !.line = @ + 1,
                  !.pc = IF load.line + 1 < Len(load.dict_file)
                         THEN "load" ELSE "filter"]
    /\ UNCHANGED <<dictionary, lines, pc, text, buf, i, curr,
                   pass1_segments, pass2_segments, result>>

\* load_words: one iteration of the filter loop, over the words of
\* words_set in the order the HashSet yields them
FilterWord ==
    /\ load.pc = "filter"
    /\ \E word \in load.words_set \ load.visited :
           load' = [load EXCEPT
                      !.visited = @ \cup {word},
                      !.words_to_remove =
                          IF to_remove(load.words_set, word)
                          THEN @ \cup {word} ELSE @]
    /\ UNCHANGED <<dictionary, lines, pc, text, buf, i, curr,
                   pass1_segments, pass2_segments, result>>

\* load_words: the filter loop is over; remove, recompute max_len, return
RemoveWords ==
    /\ load.pc = "filter"
    /\ load.visited = load.words_set
    /\ load' = [remove_words(load) EXCEPT !.pc = "costs"]
    /\ UNCHANGED <<dictionary, lines, pc, text, buf, i, curr,
                   pass1_segments, pass2_segments, result>>

\* calculate_costs: one iteration of the loop over the entries of the
\* frequency file, in the order the HashMap yields them
CountEntry ==
    /\ load.pc = "costs"
    /\ load.has_freq
    /\ \E word \in DOMAIN load.data :
           /\ \A k \in 1..Len(load.order) : load.order[k] # word
           /\ load' = count_entry(load, word, load.data[word])
    /\ UNCHANGED <<dictionary, lines, pc, text, buf, i, curr,
                   pass1_segments, pass2_segments, result>>

\* calculate_costs returns (at once when there is no frequency file), and
\* Dictionary::new builds the Dictionary
BuildDictionary ==
    /\ load.pc = "costs"
    /\ load.has_freq => Len(load.order) = Cardinality(DOMAIN load.data)
    /\ dictionary' = build(load)
    /\ load' = [load EXCEPT !.pc = "ready"]
    /\ UNCHANGED <<lines, pc, text, buf, i, curr,
                   pass1_segments, pass2_segments, result>>

Next ==
    \/ \E t \in Threads : Segment(t)
    \/ \E t \in Threads : DpStep(t)
    \/ \E t \in Threads : BeginBacktrack(t)
    \/ \E t \in Threads : BacktrackStep(t)
    \/ \E t \in Threads : Pass1(t)
    \/ \E t \in Threads : Pass2(t)
    \/ \E t \in Threads : Pass3(t)

\* the program from the construction of the Dictionary on
NextDict ==
    \/ LoadLine
    \/ FilterWord
    \/ RemoveWords
    \/ CountEntry
    \/ BuildDictionary
    \/ Next

\* apply_heuristics_string and post_process_unknowns_string called on a
\* token list of the caller's
NextPass2 ==
    \/ \E t \in Threads : Pass2(t)
    \/ \E t \in Threads : Pass3(t)

\* post_process_unknowns_string called on a token list of the caller's
NextPass3 == \E t \in Threads : Pass3(t)

(***************************************************************************)
(* Initial states: a dictionary, and for every worker thread the lines it  *)
(* will segment, every buffer as ThreadLocalBuffers::new() makes it.       *)
(***************************************************************************)
\* all strings over alphabet of at most maxlen codepoints
Strings(alphabet, maxlen) == UNION {[1..k -> alphabet] : k \in 0..maxlen}

\* all non-empty sequences of at most maxcalls such strings
LineSeqs(strings, maxcalls) == UNION {[1..k -> strings] : k \in 1..maxcalls}

\* a Dictionary over the word set words, no frequency file
DictOf(words) == Dictionary_new(words, <<>>, DEFAULT_COST, UNKNOWN_COST)

\* Dictionary::new at its entry, for a word list and a frequency file
\* (has_freq: the file exists)
Loading(dict_file, has_freq, data) ==
    [ pc |-> IF dict_file = <<>> THEN "filter" ELSE "load",
      dict_file |-> dict_file,
      line |-> 0,
      words_set |-> {},
      visited |-> {},
      words_to_remove |-> {},
      max_len |-> 0,
      has_freq |-> has_freq,
      data |-> data,
      order |-> <<>>,
      effective_counts |-> <<>>,
      total_tokens |-> 0 ]

\* Dictionary::new has returned dict
Loaded(dict) ==
    [ Loading(<<>>, FALSE, <<>>) EXCEPT !.pc = "ready",
                                        !.words_set = dict.words,
                                        !.max_len = dict.max_word_length ]

InitWith(dicts, threads, lineseqs) ==
    /\ dictionary \in dicts
    /\ load = Loaded(dictionary)
    /\ lines \in [threads -> lineseqs]
    /\ pc = [t \in threads |-> "idle"]
    /\ text = [t \in threads |-> <<>>]
    /\ buf = [t \in threads |-> ThreadLocalBuffers_new]
    /\ i = [t \in threads |-> 0]
    /\ curr = [t \in threads |-> 0]
    /\ pass1_segments = [t \in threads |-> <<>>]
    /\ pass2_segments = [t \in threads |-> <<>>]
    /\ result = [t \in threads |-> <<>>]

\* Bounds
MaxLen == 3

Alphabet ==
    {ZWSP, KA, BA, COENG, AA, BANTOC, SPACE, LATIN_A, DIGIT1, DOLLAR, DOT}

Dicts ==
    { DictOf({}),
      DictOf({<<KA, BA>>, <<BA, BANTOC>>}),
      DictOf({<<KA>>, <<KA, COENG>>, <<BA, AA, KA>>}) }

\* one thread, one call on fresh buffers
Init == InitWith(Dicts, {1}, LineSeqs(Strings(Alphabet, MaxLen), 1))

Spec == Init /\ [][Next]_vars

\* Digit runs: strings over digits of both scripts, two of the grouping
\* separators and a consonant
NumMaxLen == 4

NumAlphabet == {DIGIT1, KDIGIT2, COMMA, SPACE, KA}

\* the last dictionary has a frequency file: 50 tokens in all, half of them
\* the word "1" (cost 0.3), default_cost 1.0, unknown_cost 6.0
NumDicts ==
    { DictOf({}),
      DictOf({<<KA>>, <<DIGIT1, KA>>, <<KA, KDIGIT2>>}),
      Dictionary_new({<<DIGIT1>>}, [w \in {<<DIGIT1>>} |-> 3], 10, 60) }

InitNum == InitWith(NumDicts, {1}, LineSeqs(Strings(NumAlphabet, NumMaxLen), 1))

SpecNum == InitNum /\ [][Next]_vars

\* Buffer reuse: one thread makes up to MaxCalls calls in a row
MaxCalls == 2

ReuseMaxLen == 2

ReuseAlphabet == {KA, AA}

ReuseDicts == { DictOf({}), DictOf({<<KA, KA>>}) }

InitReuse ==
    InitWith(ReuseDicts, {1},
             LineSeqs(Strings(ReuseAlphabet, ReuseMaxLen), MaxCalls))

SpecReuse == InitReuse /\ [][Next]_vars

\* Concurrency: NumThreads rayon workers share the dictionary, each with one
\* line of the input file
NumThreads == 2

ConcLines == { <<KA, AA>>, <<AA, KA, KA>>, <<SPACE>> }

InitConc == InitWith({DictOf({<<KA, KA>>})}, 1..NumThreads,
                     LineSeqs(ConcLines, 1))

SpecConc == InitConc /\ [][Next]_vars

\* Merging across a space: inputs put together from at most MaxPieces
\* pieces, each a cluster, a lone consonant, a space or a full stop
MaxPieces == 4

MergePieces ==
    { <<BA, AA>>, <<BA, BANTOC>>, <<BA, SAMYOK>>, <<BA>>, <<SPACE>>, <<DOT>> }

MergeTexts == {Concat(ps) : ps \in Strings(MergePieces, MaxPieces)}

MergeDicts == { DictOf({}), DictOf({<<BA, AA, BA>>, <<BA, BA>>}) }

InitMerge == InitWith(MergeDicts, {1}, LineSeqs(MergeTexts, 1))

SpecMerge == InitMerge /\ [][Next]_vars

\* Acronyms: strings of consonants, a vowel, a Latin letter and full stops
AcrMaxLen == 5

AcrAlphabet == {KA, AA, DOT, LATIN_A}

AcrDicts == { DictOf({}), DictOf({<<KA, AA>>, <<KA>>}) }

InitAcr == InitWith(AcrDicts, {1}, LineSeqs(Strings(AcrAlphabet, AcrMaxLen), 1))

SpecAcr == InitAcr /\ [][Next]_vars

\* Dictionary construction: word lists of at most MaxLines lines, a few
\* frequency files, and texts that hold the listed words
MaxLines == 2

RO_WORD == <<KA, COENG, RO, COENG, TA>>

DictLines ==
    { <<>>, <<KA>>, <<AA>>, <<KA, SPACE>>, <<KA, COENG, TA>>,
      <<QU, KA, QU>>, <<QU, KA>>, <<KA, QU, KA>>, <<COENG, TA, KA>>,
      <<KA, LEK_TOO>>, RO_WORD }

WordLists == UNION {[1..k -> DictLines] : k \in 0..MaxLines}

FreqFiles ==
    { <<>>,
      [w \in {<<KA>>} |-> 2],
      [w \in {<<KA, COENG, TA>>, <<KA, COENG, DA>>} |->
          IF w[3] = TA THEN 9 ELSE 2],
      [w \in {RO_WORD, <<KA, COENG, TA, COENG, RO>>} |->
          IF w[3] = RO THEN 9 ELSE 7] }

DictTexts == { <<QU, KA, QU>>, <<KA, KA, COENG, DA>> }

InitDict ==
    /\ \E dict_file \in WordLists, has_freq \in BOOLEAN, data \in FreqFiles :
           /\ has_freq \/ data = <<>>
           /\ load = Loading(dict_file, has_freq, data)
    /\ dictionary = DictOf({})
    /\ lines \in [{1} -> LineSeqs(DictTexts, 1)]
    /\ pc = [t \in {1} |-> "idle"]
    /\ text = [t \in {1} |-> <<>>]
    /\ buf = [t \in {1} |-> ThreadLocalBuffers_new]
    /\ i = [t \in {1} |-> 0]
    /\ curr = [t \in {1} |-> 0]
    /\ pass1_segments = [t \in {1} |-> <<>>]
    /\ pass2_segments = [t \in {1} |-> <<>>]
    /\ result = [t \in {1} |-> <<>>]

SpecDict == InitDict /\ [][NextDict]_vars

\* The public passes on token lists of at most MaxTokens tokens
MaxTokens == 3

PassTokens ==
    { <<>>, <<KA>>, <<BA>>, <<SPACE>>, <<BA, AA>>, <<KA, BANTOC>>,
      <<KA, BANTOC, SPACE>>, <<KA, SIGN_I, TOANDAKHIAT>>, <<KA, SAMYOK>>,
      <<DIGIT1>>, <<LATIN_A, DOT>> }

TokenLists == Strings(PassTokens, MaxTokens)

PassDicts == { DictOf({}), DictOf({<<BA, AA>>, <<KA, BANTOC>>, <<BA, BA>>}) }

\* a call of the pass at entry (pc "pass2" or "pass3") on a token list
InitPass(entry) ==
    /\ dictionary \in PassDicts
    /\ load = Loaded(dictionary)
    /\ lines = [t \in {1} |-> <<>>]
    /\ pc = [t \in {1} |-> entry]
    /\ text = [t \in {1} |-> <<>>]
    /\ buf = [t \in {1} |-> ThreadLocalBuffers_new]
    /\ i = [t \in {1} |-> 0]
    /\ curr = [t \in {1} |-> 0]
    /\ \E tokens \in TokenLists :
           /\ pass1_segments =
                  [t \in {1} |-> IF entry = "pass2" THEN tokens ELSE <<>>]
           /\ pass2_segments =
                  [t \in {1} |-> IF entry = "pass3" THEN tokens ELSE <<>>]
    /\ result = [t \in {1} |-> <<>>]

InitPass2 == InitPass("pass2")

InitPass3 == InitPass("pass3")

SpecPass2 == InitPass2 /\ [][NextPass2]_vars

SpecPass3 == InitPass3 /\ [][NextPass3]_vars

\* Subscript-RO re-ordering: word lists of one word made of at most
\* MaxRoPieces pieces
MaxRoPieces == 4

RoPieces == { <<COENG, RO>>, <<COENG, TA>>, <<COENG>>, <<KA>> }

RoWords == {Concat(ps) : ps \in Strings(RoPieces, MaxRoPieces)}

InitRo ==
    /\ \E word \in RoWords, has_freq \in BOOLEAN :
           load = Loading(<<word>>, has_freq,
                          IF has_freq THEN [w \in {word} |-> 7] ELSE <<>>)
    /\ dictionary = DictOf({})
    /\ lines = [t \in {1} |-> << <<KA, COENG, TA>> >>]
    /\ pc = [t \in {1} |-> "idle"]
    /\ text = [t \in {1} |-> <<>>]
    /\ buf = [t \in {1} |-> ThreadLocalBuffers_new]
    /\ i = [t \in {1} |-> 0]
    /\ curr = [t \in {1} |-> 0]
    /\ pass1_segments = [t \in {1} |-> <<>>]
    /\ pass2_segments = [t \in {1} |-> <<>>]
    /\ result = [t \in {1} |-> <<>>]

SpecRo == InitRo /\ [][NextDict]_vars

(***************************************************************************)
(* Properties.                                                             *)
(***************************************************************************)
\* t with every U+200B removed, stated without the code's replace
Stripped(t) == SelectSeq(t, LAMBDA c : c # ZWSP)

\* the end position (in codepoints) of the k-th token of a token list
RECURSIVE EndOf(_, _)
EndOf(tokens, k) == IF k = 0 THEN 0 ELSE EndOf(tokens, k - 1) + Len(tokens[k])

\* the token of a list that ends at position p (<<>> when none does)
TokenEndingAt(tokens, p) ==
    IF \E k \in 1..Len(tokens) : EndOf(tokens, k) = p
    THEN tokens[CHOOSE k \in 1..Len(tokens) : EndOf(tokens, k) = p]
    ELSE <<>>

\* C1 (coverage): when a call of segment has returned, the tokens it
\* returned, concatenated in order, are exactly its argument with every
\* U+200B removed.
C1_Coverage ==
    \A t \in Threads :
        pc[t] = "done" => Concat(result[t]) = Stripped(text[t])

\* a call whose argument held a U+200B has returned, and a post-processing
\* pass rewrote the DP token list
C1_Witness ==
    \E t \in Threads :
        /\ pc[t] = "done"
        /\ Contains(text[t], ZWSP)
        /\ Len(Stripped(text[t])) >= 2
        /\ result[t] # MyBuf(t).segments

\* C2 (cluster respect, coeng), as amended: a returned token ends with
\* U+17D2 only if the DP token that ends at the same position is the single
\* codepoint U+17D2 or a dictionary word; no cluster, number, separator or
\* acronym step ends on U+17D2.
C2_CoengEnd ==
    \A t \in Threads :
        pc[t] = "done" =>
            \A k \in 1..Len(result[t]) :
                Last(result[t][k]) = COENG =>
                    LET d == TokenEndingAt(MyBuf(t).segments,
                                           EndOf(result[t], k))
                    IN d = <<COENG>> \/ contains(dictionary, d)

\* under the empty dictionary a call has returned a token of two or more
\* codepoints that ends with U+17D2 (Pass 1 snapped the stray coeng back)
C2_Witness ==
    \E t \in Threads :
        /\ pc[t] = "done"
        /\ dictionary.words = {}
        /\ \E k \in 1..Len(result[t]) :
               Len(result[t][k]) >= 2 /\ Last(result[t][k]) = COENG

\* C2 as stated: no returned token ends with U+17D2
C2_Original ==
    \A t \in Threads :
        pc[t] = "done" =>
            \A k \in 1..Len(result[t]) : Last(result[t][k]) # COENG

\* C3 (cluster respect, dependent vowel), as amended: a returned token that
\* is not the first begins with a dependent vowel only if the DP token that
\* ends where it starts begins with a separator.
C3_VowelStart ==
    \A t \in Threads :
        pc[t] = "done" =>
            \A k \in 2..Len(result[t]) :
                is_dependent_vowel(result[t][k][1]) =>
                    LET d == TokenEndingAt(MyBuf(t).segments,
                                           EndOf(result[t], k - 1))
                    IN d # <<>> /\ is_separator(d[1])

\* a call has returned a token that begins with a dependent vowel and is not
\* the first
C3_Witness ==
    \E t \in Threads :
        /\ pc[t] = "done"
        /\ \E k \in 2..Len(result[t]) : is_dependent_vowel(result[t][k][1])

\* C3 as stated: only the first returned token may begin with a dependent
\* vowel
C3_Original ==
    \A t \in Threads :
        pc[t] = "done" =>
            \A k \in 2..Len(result[t]) : ~is_dependent_vowel(result[t][k][1])

\* C4 (a finite path always exists): once the main loop is over, cost[n] is
\* finite and every parent the backtrack reads is set, so the backtrack
\* never breaks early and ends at position 0.
C4_FinitePath ==
    \A t \in Threads :
        /\ pc[t] = "backtrack" =>
               /\ At(MyBuf(t).dp_cost, Len(MyBuf(t).codepoints)) < INFINITY
               /\ At(MyBuf(t).dp_parent, curr[t]) # -1
        /\ pc[t] \in {"reverse", "pass2", "pass3"} => curr[t] = 0

\* the backtrack has walked a path of at least two steps down to 0, under
\* the empty dictionary
C4_Witness ==
    \E t \in Threads :
        /\ pc[t] = "reverse"
        /\ dictionary.words = {}
        /\ curr[t] = 0
        /\ Len(MyBuf(t).segments) >= 2

\* C5 (no empty tokens): every recorded DP step has parent[k] < k, and no
\* token of the DP list, of a pass or of the returned list is empty.
C5_NoEmptyTokens ==
    \A t \in Threads :
        /\ pc[t] # "idle" =>
               \A k \in 1..Len(MyBuf(t).dp_parent) :
                   MyBuf(t).dp_parent[k] < k - 1
        /\ \A k \in 1..Len(MyBuf(t).segments) : MyBuf(t).segments[k] # <<>>
        /\ \A k \in 1..Len(pass1_segments[t]) : pass1_segments[t][k] # <<>>
        /\ \A k \in 1..Len(pass2_segments[t]) : pass2_segments[t][k] # <<>>
        /\ \A k \in 1..Len(result[t]) : result[t][k] # <<>>

\* a call on a text with a currency symbol before a digit (the number step
\* of length 0) has returned at least two tokens, one of them flushed from
\* the unknown buffer
C5_Witness ==
    \E t \in Threads :
        /\ pc[t] = "done"
        /\ \E k \in 1..(Len(text[t]) - 1) :
               text[t][k] = DOLLAR /\ text[t][k + 1] = DIGIT1
        /\ Len(result[t]) >= 2
        /\ \E k \in 1..Len(result[t]) : ~is_known(dictionary, result[t][k])

\* C8 (empty input): a call whose argument is empty, or holds nothing but
\* U+200B, returns the empty list at once and changes no scratch buffer.
C8_EmptyInput ==
    [][\A t \in Threads :
          (lines'[t] # lines[t] /\ Stripped(Head(lines[t])) = <<>>)
              => (pc'[t] = "done" /\ result'[t] = <<>> /\ buf' = buf)]_vars

\* a call on a non-empty string of U+200B only has returned [] and the
\* buffers are as ThreadLocalBuffers::new() left them
C8_Witness ==
    \E t \in Threads :
        /\ pc[t] = "done"
        /\ text[t] # <<>>
        /\ Stripped(text[t]) = <<>>
        /\ result[t] = <<>>
        /\ MyBuf(t) = ThreadLocalBuffers_new

\* s is made of digits only (ASCII or Khmer)
AllDigits(s) == \A k \in 1..Len(s) : is_digit(s[k])

\* C9 (a digit run is one token): for a non-empty input of digits only, and
\* a dictionary with no word made of digits only, segment returns the one
\* token that is the whole input.
C9_DigitRun ==
    \A t \in Threads :
        ( /\ pc[t] = "done"
          /\ text[t] # <<>>
          /\ AllDigits(text[t])
          /\ ~(\E w \in dictionary.words : AllDigits(w)) )
            => result[t] = <<text[t]>>

\* a run of three or more digits of both scripts has been returned as one
\* token, under a dictionary that has words
C9_Witness ==
    \E t \in Threads :
        /\ pc[t] = "done"
        /\ Len(text[t]) >= 3
        /\ AllDigits(text[t])
        /\ Contains(text[t], DIGIT1) /\ Contains(text[t], KDIGIT2)
        /\ dictionary.words # {}
        /\ ~(\E w \in dictionary.words : AllDigits(w))
        /\ result[t] = <<text[t]>>

\* C7 (determinism across buffer reuse): whatever calls came before on the
\* thread, a call returns what the same call returns on buffers fresh from
\* ThreadLocalBuffers::new().
C7_ReuseDeterminism ==
    \A t \in Threads :
        pc[t] = "done" => result[t] = segment_fresh(dictionary, text[t])

\* a later call has returned while the cost array still holds, beyond its
\* n + 1 entries, a finite cost left by a longer earlier call
C7_Witness ==
    \E t \in Threads :
        /\ pc[t] = "done"
        /\ result[t] # <<>>
        /\ Len(MyBuf(t).dp_cost) > Len(MyBuf(t).codepoints) + 1
        /\ Last(MyBuf(t).dp_cost) < INFINITY

\* C6 (thread safety): under every interleaving each call returns what it
\* returns when run alone, and a thread's buffers change only in a step of
\* that thread; the dictionary never changes.
C6_ThreadSafety ==
    /\ [](\A t \in Threads :
              pc[t] = "done" => result[t] = segment_fresh(dictionary, text[t]))
    /\ [][ /\ dictionary' = dictionary
           /\ \A s \in Threads :
                  buf'[s] # buf[s] =>
                      \/ pc'[s] # pc[s]
                      \/ i'[s] # i[s]
                      \/ curr'[s] # curr[s] ]_vars

\* two threads are in the middle of their DP at the same time, on different
\* lines, each with its own codepoints in its own buffers
C6_Witness ==
    \E s, t \in Threads :
        /\ s # t
        /\ pc[s] = "dp" /\ pc[t] = "backtrack"
        /\ text[s] # text[t]
        /\ buf[s].codepoints = Stripped(text[s])
        /\ buf[t].codepoints = Stripped(text[t])

\* the DP token list of thread t once the call has reversed it
DpTokens(t) == MyBuf(t).segments

\* the DP tokens j, j + 1, j + 2 of thread t are u, ' ', s as C10 has them:
\* u of two or more codepoints, not in W and not known to Pass 3, and s a
\* <consonant, U+17CB> that is not in W
SpaceSignAt(t, j) ==
    LET d == DpTokens(t)
    IN /\ j >= 1 /\ j + 2 <= Len(d)
       /\ Len(d[j]) >= 2
       /\ ~contains(dictionary, d[j])
       /\ ~is_known(dictionary, d[j])
       /\ d[j + 1] = <<SPACE>>
       /\ Len(d[j + 2]) = 2
       /\ is_consonant(d[j + 2][1])
       /\ d[j + 2][2] = BANTOC
       /\ ~contains(dictionary, d[j + 2])

\* Pass 1 leaves s alone and Pass 2 leaves u alone: the DP token after s is
\* not an invalid single, and u is not a Rule 1 pattern with a token before it
LeftAlone(t, j) ==
    LET d == DpTokens(t)
    IN /\ (j + 3 <= Len(d) => ~is_invalid_single(dictionary, d[j + 3]))
       /\ ~(j > 1 /\ merges_with_previous(d[j]))

\* some token of the list starts at or before a and ends at or after b
Spans(tokens, a, b) ==
    \E k \in 1..Len(tokens) :
        EndOf(tokens, k - 1) <= a /\ EndOf(tokens, k) >= b

\* some token of the list starts at a and ends at b
HasToken(tokens, a, b) ==
    \E k \in 1..Len(tokens) :
        EndOf(tokens, k - 1) = a /\ EndOf(tokens, k) = b

\* the token of the list that ends at a, and the one that starts at b, are
\* known to Pass 3 (or there is none)
KnownAround(tokens, a, b) ==
    \A k \in 1..Len(tokens) :
        (EndOf(tokens, k) = a \/ EndOf(tokens, k - 1) = b)
            => is_known(dictionary, tokens[k])

Processed(t, p) ==
    /\ pc[t] # "idle"
    /\ p >= 0 /\ p < Len(MyBuf(t).codepoints)
    /\ Len(MyBuf(t).dp_cost) > Len(MyBuf(t).codepoints)
    /\ (pc[t] = "dp" => p < i[t])

\* p is reachable and the repair gate is open there
NormalAt(t, p) ==
    LET cps == MyBuf(t).codepoints
    IN /\ At(MyBuf(t).dp_cost, p) < INFINITY
       /\ ~(p > 0 /\ At(cps, p - 1) = COENG)
       /\ ~is_dependent_vowel(At(cps, p))

\* C14 (currency run), as stated: from a reachable non-repair position p
\* that holds a currency symbol followed by a digit, the digit / currency
\* step covers the symbol and the number after it (len >= 2) and relaxes
\* cost[p + len] with step_cost 1.0.
C14_CurrencyRun ==
    \A t \in Threads :
        \A p \in 0..(Len(MyBuf(t).codepoints) - 2) :
            LET cps == MyBuf(t).codepoints
            IN ( /\ Processed(t, p) /\ NormalAt(t, p)
                 /\ is_currency_symbol(At(cps, p))
                 /\ is_digit(At(cps, p + 1)) )
                 => LET len == 1 + get_number_length_cps(cps, p + 1)
                    IN /\ len >= 2
                       /\ At(MyBuf(t).dp_cost, p + len)
                              <= At(MyBuf(t).dp_cost, p) + 10

\* C16 (repair gate, frame): a step of the main loop at a reachable position
\* i behind a U+17D2, or on a dependent vowel, changes nothing but
\* cost[i + 1] and parent[i + 1], and those only to cost[i] + unknown_cost
\* + 50.0 and i.
C16_RepairFrame ==
    [][\A t \in Threads :
          LET b == MyBuf(t)
              cps == b.codepoints
              p == i[t]
          IN ( /\ pc[t] = "dp" /\ i'[t] = p + 1
               /\ At(b.dp_cost, p) < INFINITY
               /\ \/ (p > 0 /\ At(cps, p - 1) = COENG)
                  \/ is_dependent_vowel(At(cps, p)) )
               => /\ buf'[t].codepoints = cps
                  /\ buf'[t].segments = b.segments
                  /\ Len(buf'[t].dp_cost) = Len(b.dp_cost)
                  /\ Len(buf'[t].dp_parent) = Len(b.dp_parent)
                  /\ \A k \in 0..(Len(b.dp_cost) - 1) :
                         \/ /\ At(buf'[t].dp_cost, k) = At(b.dp_cost, k)
                            /\ At(buf'[t].dp_parent, k) = At(b.dp_parent, k)
                         \/ /\ k = p + 1
                            /\ At(buf'[t].dp_cost, k) =
                                   At(b.dp_cost, p)
                                     + dictionary.unknown_cost + 500
                            /\ At(buf'[t].dp_parent, k) = p ]_vars

\* the repair step has been taken from a position where a dictionary word
\* starts, and the word has not been used
C16_Witness ==
    \E t \in Threads :
        /\ pc[t] = "dp" /\ i[t] >= 2
        /\ At(MyBuf(t).codepoints, i[t] - 2) = COENG
        /\ contains(dictionary, <<At(MyBuf(t).codepoints, i[t] - 1)>>)
        /\ At(MyBuf(t).dp_parent, i[t]) = i[t] - 1
        /\ At(MyBuf(t).dp_cost, i[t]) =
               At(MyBuf(t).dp_cost, i[t] - 1) + dictionary.unknown_cost + 500

\* the run of length r from start obeys the rules of get_number_length
NumberRun(cps, start, r) ==
    /\ r >= 1 /\ start + r <= Len(cps)
    /\ is_digit(At(cps, start + r - 1))
    /\ \A k \in start..(start + r - 1) :
           \/ is_digit(At(cps, k))
           \/ /\ At(cps, k) \in {COMMA, DOT, SPACE}
              /\ k + 1 <= start + r - 1
              /\ is_digit(At(cps, k + 1))

\* C18 (get_number_length): from every start that holds a digit the length
\* returned is a run of digits and single ',', '.', ' ' each followed by a
\* digit, ending in a digit, inside the array, and no longer run exists.
C18_NumberLength ==
    \A t \in Threads :
        LET cps == MyBuf(t).codepoints
        IN \A start \in 0..(Len(cps) - 1) :
               is_digit(At(cps, start)) =>
                   LET r == get_number_length_cps(cps, start)
                   IN /\ NumberRun(cps, start, r)
                      /\ \A r2 \in (r + 1)..(Len(cps) - start) :
                             ~NumberRun(cps, start, r2)

\* the main loop has taken a number that has a separator inside and stops
\* before a separator that no digit follows
C18_Witness ==
    \E t \in Threads :
        LET cps == MyBuf(t).codepoints
        IN /\ pc[t] = "dp" /\ i[t] = 1
           /\ Len(cps) = 4
           /\ is_digit(At(cps, 0)) /\ At(cps, 1) = COMMA
           /\ is_digit(At(cps, 2)) /\ At(cps, 3) = COMMA
           /\ get_number_length_cps(cps, 0) = 3
           /\ At(MyBuf(t).dp_parent, 3) = 0

RECURSIVE GroupsEnd(_, _, _)
\* the position after m (cluster, '.') groups read from p, or -1 when the
\* codepoints at p do not begin with m such groups
GroupsEnd(cps, p, m) ==
    IF m = 0 THEN p
    ELSE LET q == GroupsEnd(cps, p, m - 1)
             l == IF q >= 0 THEN get_khmer_cluster_length_cps(cps, q) ELSE 0
         IN IF q >= 0 /\ l > 0 /\ q + l < Len(cps) /\ At(cps, q + l) = DOT
            THEN q + l + 1
            ELSE -1

\* the largest number of (cluster, '.') groups that the codepoints at p
\* begin with
MaxGroups(cps, p) ==
    CHOOSE m \in 0..Len(cps) :
        /\ GroupsEnd(cps, p, m) >= 0
        /\ \A m2 \in (m + 1)..Len(cps) : GroupsEnd(cps, p, m2) < 0

\* C15 (acronym transition), as amended: from a reachable non-repair
\* position p the acronym step is proposed exactly when the run that
\* get_khmer_cluster_length measures at p (one codepoint for anything that
\* is not a base consonant or independent vowel, Khmer or not) is followed
\* by '.'; its length is that of the longest sequence of (cluster, '.')
\* groups from p, the token ends with '.', and cost[p + len] is relaxed
\* with step_cost 1.0.
C15_AcronymStep ==
    \A t \in Threads :
        LET cps == MyBuf(t).codepoints
        IN \A p \in 0..(Len(cps) - 1) :
               (Processed(t, p) /\ NormalAt(t, p)) =>
                   LET l == get_khmer_cluster_length_cps(cps, p)
                       followed == p + l < Len(cps) /\ At(cps, p + l) = DOT
                       len == GroupsEnd(cps, p, MaxGroups(cps, p)) - p
                   IN /\ is_acronym_start_cps(cps, p) <=> followed
                      /\ followed =>
                             /\ get_acronym_length_cps(cps, p) = len
                             /\ len >= 2
                             /\ At(cps, p + len - 1) = DOT
                             /\ At(MyBuf(t).dp_cost, p + len)
                                    <= At(MyBuf(t).dp_cost, p) + 10

\* the DP has taken an acronym of two groups that begins with a non-Khmer
\* codepoint
C15_Witness ==
    \E t \in Threads :
        /\ pc[t] = "done"
        /\ \E k \in 1..Len(DpTokens(t)) :
               LET d == DpTokens(t)[k]
               IN /\ Len(d) = 4
                  /\ ~is_khmer_char(d[1])
                  /\ d[2] = DOT /\ d[4] = DOT
                  /\ is_consonant(d[3])

\* C15 as stated, last sentence: the acronym step is not proposed from a
\* non-Khmer codepoint
C15_Original ==
    \A t \in Threads :
        LET cps == MyBuf(t).codepoints
        IN \A p \in 0..(Len(cps) - 1) :
               ( /\ Processed(t, p) /\ NormalAt(t, p)
                 /\ ~is_khmer_char(At(cps, p)) )
                 => LET len == get_acronym_length_cps(cps, p)
                    IN ~( /\ is_acronym_start_cps(cps, p)
                          /\ At(MyBuf(t).dp_parent, p + len) = p )

\* the steps in S when cond holds, none otherwise
When(cond, S) == IF cond THEN S ELSE {}

\* the (len, step_cost) pairs that the transitions of the main loop propose
\* from position p. The currency run is measured as the symbol and the
\* number after it when currency is TRUE, and as get_number_length_cps
\* measures it from the symbol when currency is FALSE.
Transitions(dict, cps, p, currency) ==
    LET n == Len(cps)
        c == At(cps, p)
        l == get_khmer_cluster_length_cps(cps, p)
        is_curr == /\ is_currency_symbol(c)
                   /\ p + 1 < n
                   /\ is_digit(At(cps, p + 1))
    IN IF force_repair(cps, p)
       THEN {<<1, dict.unknown_cost + 500>>}
       ELSE When(is_digit(c), {<<get_number_length_cps(cps, p), 10>>})
            \cup When(is_curr /\ currency,
                      {<<1 + get_number_length_cps(cps, p + 1), 10>>})
            \cup When(is_curr /\ ~currency,
                      {<<get_number_length_cps(cps, p), 10>>})
            \cup When(is_separator(c), {<<1, 1>>})
            \cup When(p + l < n /\ At(cps, p + l) = DOT,
                      {<<get_acronym_length_cps(cps, p), 10>>})
            \cup {<<j - p, dict.costs[Slice(cps, p, j)]>> :
                      j \in {k \in (p + 1)..n :
                                /\ k <= p + dict.max_word_length
                                /\ contains(dict, Slice(cps, p, k))}}
            \cup {<<(IF is_khmer_char(c) THEN l ELSE 1),
                    (IF is_khmer_char(c) /\ l = 1 /\ ~is_valid_single_word(c)
                     THEN dict.unknown_cost + 100
                     ELSE dict.unknown_cost)>>}

\* the smallest member of a non-empty set of integers
Min(S) == CHOOSE x \in S : \A y \in S : x <= y

\* the table of minimum total step costs from position 0 to each position
\* over all sequences of transitions, INFINITY where there is none
MinCost(dict, cps, currency) ==
    LET mc[k \in 0..Len(cps)] ==
            IF k = 0 THEN 0
            ELSE LET cands ==
                         UNION {{mc[p] + st[2] :
                                    st \in {s \in Transitions(dict, cps, p, currency) :
                                               p + s[1] = k}} :
                                p \in {q \in 0..(k - 1) : mc[q] < INFINITY}}
                 IN IF cands = {} THEN INFINITY ELSE Min(cands)
    IN mc

\* the positions from which a step reaches k at the minimum cost
BestParents(dict, cps, k, currency) ==
    LET mc == MinCost(dict, cps, currency)
    IN {p \in 0..(k - 1) :
           /\ mc[p] < INFINITY
           /\ \E st \in Transitions(dict, cps, p, currency) :
                  p + st[1] = k /\ mc[p] + st[2] = mc[k]}

\* the main loop of thread t has finished
LoopFinished(t) ==
    /\ pc[t] \in {"backtrack", "done"}
    /\ Len(MyBuf(t).dp_cost) > Len(MyBuf(t).codepoints)

\* the costs and parents of thread t are those of a shortest-path table
\* over the transitions, ties kept for the smallest position
OptimalOver(t, currency) ==
    LET b == MyBuf(t)
        cps == b.codepoints
        mc == MinCost(dictionary, cps, currency)
    IN \A k \in 0..Len(cps) :
           /\ At(b.dp_cost, k) = mc[k]
           /\ (k > 0 /\ mc[k] < INFINITY) =>
                  At(b.dp_parent, k) = Min(BestParents(dictionary, cps, k, currency))

\* C17 (DP optimality): when the main loop has finished, cost[k] is the
\* minimum total step cost over all sequences of the transitions of the
\* main loop from 0 to k, the currency run covering the symbol and the
\* number after it, and INFINITY iff there is no such sequence; among
\* equal-cost paths the parent found first is kept.
C17_Optimality ==
    \A t \in Threads : LoopFinished(t) => OptimalOver(t, TRUE)

\* The same over the steps the code takes, the currency run measured by
\* get_number_length_cps from the symbol itself.
DpOptimalOverCode ==
    \A t \in Threads : LoopFinished(t) => OptimalOver(t, FALSE)

\* the words that the lines of the word list and their variants put into
\* the working set, before the filter
LoadedWords(dict_file) ==
    UNION {IF keep_line(trim(dict_file[k]))
           THEN {trim(dict_file[k])} \cup generate_variants(trim(dict_file[k]))
           ELSE {} : k \in 1..Len(dict_file)}

\* load_words has returned
WordsLoaded == load.pc \in {"costs", "ready"}

\* the word sets of the construction and of the Dictionary it has built
AllWordSets ==
    {load.words_set, dictionary.words, dictionary.trie.is_word}

\* C11 (single-codepoint words): the working set and the Dictionary hold no
\* word of one codepoint other than the 15 consonants and 8 independent
\* vowels of the whitelist, the variants included.
C11_SingleWords ==
    \A W \in AllWordSets : \A w \in W :
        Len(w) = 1 => is_valid_single_word(w[1])

\* a Dictionary built from a list with a single character off the
\* whitelist and a word that has variants
C11_Witness ==
    /\ load.pc = "ready"
    /\ \E k \in 1..Len(load.dict_file) :
           LET word == trim(load.dict_file[k])
           IN Len(word) = 1 /\ ~is_valid_single_word(word[1])
    /\ \E w \in dictionary.words :
           \A k \in 1..Len(load.dict_file) : w # trim(load.dict_file[k])

\* C12 (variant filter): once the filter has run no word of the working
\* set or of the Dictionary begins with U+17D2 and none contains U+17D7,
\* whether it came from the file or is a variant.
C12_NoCoengNoLekToo ==
    WordsLoaded =>
        \A W \in AllWordSets : \A w \in W :
            w # <<>> /\ Head(w) # COENG /\ ~Contains(w, LEK_TOO)

\* the filter has removed a listed word that begins with U+17D2, its
\* variant, and a word that contains U+17D7
C12_Witness ==
    /\ load.pc = "ready"
    /\ \E w \in load.words_to_remove :
           /\ Head(w) = COENG
           /\ \A k \in 1..Len(load.dict_file) : w # trim(load.dict_file[k])
    /\ \E w \in load.words_to_remove : Contains(w, LEK_TOO)

\* C13 (max_word_length and the trie): max_word_length is the greatest
\* codepoint length of the surviving words (0 if there is none); the trie
\* answers Some(cost), the cost of the word, exactly when cps[i..j] is a
\* surviving word, and every such j lies within the scan
\* [i + 1, min(i + max_word_length, n)].
C13_MaxWordLength ==
    load.pc = "ready" =>
        LET W == load.words_set
            m == dictionary.max_word_length
        IN /\ dictionary.words = W
           /\ \A w \in W : Len(w) <= m
           /\ IF W = {} THEN m = 0 ELSE \E w \in W : Len(w) = m
           /\ \A cps \in DictTexts :
                  \A p \in 0..(Len(cps) - 1) : \A j \in (p + 1)..Len(cps) :
                      LET word_cost == lookup_codepoints(dictionary, cps, p, j)
                      IN /\ word_cost # {} <=> Slice(cps, p, j) \in W
                         /\ word_cost # {} =>
                                /\ j <= p + m
                                /\ word_cost = {dictionary.costs[Slice(cps, p, j)]}

\* the filter removed a word longer than every survivor, and a text holds
\* a surviving word of the greatest length
C13_Witness ==
    /\ load.pc = "ready"
    /\ \E w \in load.words_to_remove : Len(w) > dictionary.max_word_length
    /\ \E cps \in DictTexts :
           \E p \in 0..(Len(cps) - 1) :
               /\ dictionary.max_word_length > 1
               /\ p + dictionary.max_word_length <= Len(cps)
               /\ lookup_codepoints(dictionary, cps, p,
                                    p + dictionary.max_word_length) # {}

\* the three tests of the U+17AC rule on a word w against the set W
RyyStarts(W, w) == Head(w) = QU /\ Tail(w) \in W

RyyEnds(W, w) == w[Len(w)] = QU /\ SubSeq(w, 1, Len(w) - 1) \in W

RyySplits(W, w) ==
    \A k \in 1..Len(split(w, QU)) :
        split(w, QU)[k] \in W \/ split(w, QU)[k] = <<>>

\* C19 (U+17AC rule): a word of more than one codepoint that contains
\* U+17AC is removed if any of (a) it starts with U+17AC and the rest is in
\* the set, (b) it ends with U+17AC and the prefix is in the set, (c) its
\* parts split on U+17AC are all in the set or empty, the set being the
\* working set before any removal.
C19_AnyOf ==
    WordsLoaded =>
        LET W == LoadedWords(load.dict_file)
        IN \A w \in W :
               ( /\ Len(w) > 1
                 /\ Contains(w, QU)
                 /\ RyyStarts(W, w) \/ RyyEnds(W, w) \/ RyySplits(W, w) )
                 => w \notin load.words_set

\* What the filter leaves, whatever the order of its loop: the loaded words
\* less those that to_remove marks against the set before any removal.
FilterOrderIndependent ==
    WordsLoaded =>
        LET W == LoadedWords(load.dict_file)
        IN load.words_set = {w \in W : ~to_remove(W, w)}

\* the keys of the frequency file are all processed
CountsDone ==
    /\ load.pc \in {"costs", "ready"}
    /\ load.has_freq
    /\ Len(load.order) = Cardinality(DOMAIN load.data)

RECURSIVE SumOfFloors(_, _)
\* the sum of the floored counts of the keys in keys
SumOfFloors(data, keys) ==
    IF keys = {} THEN 0
    ELSE LET k == CHOOSE x \in keys : TRUE
         IN floor_count(data[k]) + SumOfFloors(data, keys \ {k})

\* C20 (effective counts): when every entry is processed, a key of the
\* frequency file has max(own count, 5.0), also when it is a variant of
\* another key; a variant with no entry of its own has the count of the
\* first processed key that generates it; the total is the sum over the
\* keys only.
C20_EffectiveCounts ==
    CountsDone =>
        LET keys == DOMAIN load.data
            eff == load.effective_counts
        IN /\ DOMAIN eff = keys \cup UNION {generate_variants(k) : k \in keys}
           /\ \A k \in keys : eff[k] = floor_count(load.data[k])
           /\ \A v \in DOMAIN eff \ keys :
                  LET first == CHOOSE j \in 1..Len(load.order) :
                                   /\ v \in generate_variants(load.order[j])
                                   /\ \A j2 \in 1..(j - 1) :
                                          v \notin generate_variants(load.order[j2])
                  IN eff[v] = floor_count(load.data[load.order[first]])
           /\ load.total_tokens = SumOfFloors(load.data, keys)

\* two keys with different counts are variants of each other, the second
\* was processed after the first, and a variant without an entry is
\* generated by both
C20_Witness ==
    /\ CountsDone
    /\ Len(load.order) = 2
    /\ load.order[2] \in generate_variants(load.order[1])
    /\ load.data[load.order[1]] # load.data[load.order[2]]
    /\ \E v \in DOMAIN load.effective_counts \ DOMAIN load.data :
           /\ v \in generate_variants(load.order[1])
           /\ v \in generate_variants(load.order[2])
           /\ load.effective_counts[v] = load.data[load.order[1]]

\* a token of exactly one codepoint that is not whitelisted, not a digit,
\* not a separator and not a word
InvalidSingle(dict, s) ==
    /\ Len(s) = 1
    /\ ~is_valid_single_word(s[1])
    /\ ~is_digit(s[1])
    /\ ~is_separator(s[1])
    /\ s \notin dict.words

RECURSIVE SnapByPrevious(_, _, _)
\* the output for the remaining tokens, given the output out so far,
\* when only the previous output token decides: an invalid single is
\* appended to it iff it exists and does not begin with a separator
SnapByPrevious(dict, tokens, out) ==
    IF tokens = <<>> THEN out
    ELSE LET s == Head(tokens)
             merge == /\ InvalidSingle(dict, s)
                      /\ out # <<>>
                      /\ Last(out) # <<>>
                      /\ ~is_separator(Last(out)[1])
         IN SnapByPrevious(dict, Tail(tokens),
                           IF merge THEN Append(Front(out), Last(out) \o s)
                           ELSE Append(out, s))

\* Pass 1 of thread t has run on its DP tokens
Pass1Done(t) ==
    /\ pc[t] \in {"pass2", "pass3", "done"}
    /\ Stripped(text[t]) # <<>>

\* C21 (Pass 1, snap): Pass 1 appends an invalid-single token to the
\* previous output token iff that token exists and does not begin with a
\* separator, and emits every other token unchanged; the following token
\* never matters.
C21_SnapByPrevious ==
    \A t \in Threads :
        Pass1Done(t) =>
            pass1_segments[t] = SnapByPrevious(dictionary, DpTokens(t), <<>>)

\* an invalid single that stands last or before a separator has been
\* appended to the token before it
C21_Witness ==
    \E t \in Threads :
        /\ Pass1Done(t)
        /\ \E k \in 2..Len(DpTokens(t)) :
               /\ InvalidSingle(dictionary, DpTokens(t)[k])
               /\ k < Len(DpTokens(t)) => is_sep_segment(DpTokens(t)[k + 1])
               /\ DpTokens(t)[k - 1] # <<>>
               /\ ~is_separator(DpTokens(t)[k - 1][1])
               /\ Len(pass1_segments[t]) < Len(DpTokens(t))

\* s is a base consonant followed by one of U+17CB, U+17CE, U+17CF, or a
\* base consonant followed by U+17B7 and U+17CD, and nothing else
SignToken(s) ==
    \/ /\ Len(s) = 2
       /\ is_consonant(s[1])
       /\ s[2] \in {\H17CB, \H17CE, \H17CF}
    \/ /\ Len(s) = 3
       /\ is_consonant(s[1])
       /\ s[2] = \H17B7
       /\ s[3] = \H17CD

\* s is a base consonant followed by U+17D0, and nothing else
SamyokToken(s) == Len(s) = 2 /\ is_consonant(s[1]) /\ s[2] = \H17D0

RECURSIVE MergeByLength(_, _, _, _)
\* Pass 2 from token k on, given the output out so far, the merges decided
\* by the number of codepoints of the token
MergeByLength(dict, tokens, k, out) ==
    IF k > Len(tokens) THEN out
    ELSE LET s == tokens[k]
         IN IF s \notin dict.words /\ out # <<>> /\ SignToken(s)
            THEN MergeByLength(dict, tokens, k + 1,
                               Append(Front(out), Last(out) \o s))
            ELSE IF s \notin dict.words /\ SamyokToken(s) /\ k < Len(tokens)
            THEN MergeByLength(dict, tokens, k + 2,
                               Append(out, s \o tokens[k + 1]))
            ELSE MergeByLength(dict, tokens, k + 1, Append(out, s))

\* C22 (Pass 2, combining signs): a token is merged into the previous
\* output token only if it is not a word, a previous output token exists
\* and it is exactly <consonant, U+17CB/U+17CE/U+17CF> or exactly
\* <consonant, U+17B7, U+17CD>; it is merged with the next token only if it
\* is not a word, is exactly <consonant, U+17D0> and a next token exists;
\* every other token, such as <consonant, U+17CB, space>, is emitted
\* unchanged.
C22_MergeByLength ==
    \A t \in Threads :
        pc[t] \in {"pass3", "done"} =>
            pass2_segments[t] =
                MergeByLength(dictionary, pass1_segments[t], 1, <<>>)

\* the token is known: its first codepoint is a digit, or it is a word, a
\* single whitelisted codepoint or a single separator, or it contains '.'
\* and has at least 2 codepoints
Known(dict, s) ==
    \/ (s # <<>> /\ is_digit(s[1]))
    \/ s \in dict.words
    \/ (Len(s) = 1 /\ is_valid_single_word(s[1]))
    \/ (Len(s) = 1 /\ is_separator(s[1]))
    \/ (Len(s) >= 2 /\ \E k \in 1..Len(s) : s[k] = DOT)

\* the last index of the maximal run of not-known tokens that begins at k
RunEnd(dict, tokens, k) ==
    CHOOSE e \in k..Len(tokens) :
        /\ \A j \in k..e : ~Known(dict, tokens[j])
        /\ e < Len(tokens) => Known(dict, tokens[e + 1])

RECURSIVE CoalesceRuns(_, _, _)
\* the tokens from the k-th on, every known token as it is and every
\* maximal run of not-known tokens as the one token of its concatenation
CoalesceRuns(dict, tokens, k) ==
    IF k > Len(tokens) THEN <<>>
    ELSE IF Known(dict, tokens[k])
         THEN <<tokens[k]>> \o CoalesceRuns(dict, tokens, k + 1)
         ELSE LET e == RunEnd(dict, tokens, k)
              IN <<Concat(SubSeq(tokens, k, e))>>
                     \o CoalesceRuns(dict, tokens, e + 1)

\* C23 (Pass 3, coalesce): in the output every known token stands
\* unchanged and in order, every maximal run of not-known tokens is the one
\* token of its concatenation, a run at the end included; Pass 3 applied
\* to its own output changes nothing.
C23_Coalesce ==
    \A t \in Threads :
        pc[t] = "done" =>
            /\ result[t] = CoalesceRuns(dictionary, pass2_segments[t], 1)
            /\ post_process_unknowns_string(result[t], dictionary) = result[t]

\* a known token and then a run of two not-known tokens at the end of the
\* list, whose concatenation is a word
C23_Witness ==
    \E t \in Threads :
        /\ pc[t] = "done"
        /\ Len(pass2_segments[t]) = 3
        /\ Known(dictionary, pass2_segments[t][1])
        /\ ~Known(dictionary, pass2_segments[t][2])
        /\ ~Known(dictionary, pass2_segments[t][3])
        /\ Len(result[t]) = 2
        /\ result[t][2] \in dictionary.words

\* the 4-codepoint window of w at index k has the pattern of the scan:
\* [Coeng, Ro, Coeng, NotRo] (ro_first) or [Coeng, NotRo, Coeng, Ro]
RoWindow(w, k, ro_first) ==
    /\ k + 3 < Len(w)
    /\ At(w, k) = COENG
    /\ At(w, k + 2) = COENG
    /\ IF ro_first THEN At(w, k + 1) = RO /\ At(w, k + 3) # RO
                   ELSE At(w, k + 1) # RO /\ At(w, k + 3) = RO

RECURSIVE WindowStarts(_, _, _)
\* the starts of the disjoint windows that a leftmost-first scan of the
\* word w itself finds from index k on
WindowStarts(w, k, ro_first) ==
    IF k + 3 >= Len(w) THEN {}
    ELSE IF RoWindow(w, k, ro_first)
         THEN {k} \cup WindowStarts(w, k + 4, ro_first)
         ELSE WindowStarts(w, k + 1, ro_first)

\* w with the two pairs of every window of starts swapped
SwapWindows(w, starts) ==
    [p \in 1..Len(w) |->
        IF \E st \in starts : p - 1 \in st..(st + 1) THEN w[p + 2]
        ELSE IF \E st \in starts : p - 1 \in (st + 2)..(st + 3) THEN w[p - 2]
        ELSE w[p]]

\* the number of occurrences of c in w
Occurrences(w, c) == Cardinality({p \in 1..Len(w) : w[p] = c})

\* the word of the one line of the word list
ListedWord == trim(load.dict_file[1])

\* the words that the two scans of generate_variants read: the word and
\* its Ta/Da variants
RoBases(word) ==
    {word}
    \cup When(contains_pair(word, COENG, TA), {replace_pair(word, 0, TA, DA)})
    \cup When(contains_pair(word, COENG, DA), {replace_pair(word, 0, DA, TA)})

\* C24 (subscript-RO rewrite): each of the two scans of generate_variants
\* yields the word it reads with the disjoint windows of a leftmost-first
\* scan of that word swapped, so no position is rewritten twice; the
\* result has the length and the codepoints, with their multiplicities, of
\* the word read; a result that differs from it is inserted as a variant.
C24_NoCascade ==
    load.line = 1 =>
        \A ro_first \in BOOLEAN : \A w \in RoBases(ListedWord) :
            LET out == ro_pass(w, 0, ro_first)
                starts == WindowStarts(w, 0, ro_first)
            IN /\ out = SwapWindows(w, starts)
               /\ \A s1, s2 \in starts : s1 # s2 => (s1 >= s2 + 4 \/ s2 >= s1 + 4)
               /\ Len(out) = Len(w)
               /\ \A c \in {COENG, RO, TA, DA, KA} :
                      Occurrences(out, c) = Occurrences(w, c)
               /\ ( /\ load.pc = "filter"
                    /\ keep_line(ListedWord)
                    /\ Len(w) >= 4
                    /\ out # w ) => out \in load.words_set

\* a word with two windows has been rewritten, and the rewritten word
\* shows the pattern again across the two windows
C24_Witness ==
    /\ load.pc = "filter"
    /\ load.line = 1
    /\ WindowStarts(ListedWord, 0, TRUE) = {0, 4}
    /\ RoWindow(ro_pass(ListedWord, 0, TRUE), 2, TRUE)
    /\ ro_pass(ListedWord, 0, TRUE) \in load.words_set

\* thread t is inside segment_with_buffers, its buffers filled and reset
InSegment(t) ==
    /\ pc[t] \in {"dp", "backtrack", "reverse"}
    /\ MyBuf(t).codepoints # <<>>

\* the lengths, indices and parents of thread t are within the arrays
SegmentInBounds(t) ==
    LET b == MyBuf(t)
        cps == b.codepoints
        n == Len(cps)
    IN /\ Len(b.dp_cost) >= n + 1
       /\ Len(b.dp_parent) >= n + 1
       /\ pc[t] = "dp" => (i[t] >= 0 /\ i[t] <= n)
       /\ pc[t] = "backtrack" => (curr[t] > 0 /\ curr[t] <= n)
       /\ At(b.dp_cost, 0) = 0
       /\ \A k \in 0..n :
              \/ At(b.dp_parent, k) = -1
              \/ (At(b.dp_parent, k) >= 0 /\ At(b.dp_parent, k) < k)
       /\ \A p \in 0..(n - 1) :
              /\ get_khmer_cluster_length_cps(cps, p) >= 1
              /\ p + get_khmer_cluster_length_cps(cps, p) <= n
              /\ get_number_length_cps(cps, p) >= 0
              /\ p + get_number_length_cps(cps, p) <= n
              /\ get_acronym_length_cps(cps, p) >= 0
              /\ p + get_acronym_length_cps(cps, p) <= n
              /\ is_acronym_start_cps(cps, p) =>
                     get_acronym_length_cps(cps, p) >= 2

\* thread t has taken the step (another thread's step leaves t's own
\* position and buffers as they were)
Moved(t) == <<i[t], curr[t], MyBuf(t)>>' # <<i[t], curr[t], MyBuf(t)>>

\* a step of the main loop moves i up by one, a step of the backtrack
\* moves curr down or ends the loop
SegmentProgress(t) ==
    /\ (pc[t] = "dp" /\ pc'[t] = "dp" /\ Moved(t)) => i'[t] = i[t] + 1
    /\ (pc[t] = "backtrack" /\ pc'[t] = "backtrack" /\ Moved(t)) =>
           (curr'[t] >= 0 /\ curr'[t] < curr[t])
    /\ (pc[t] = "backtrack" /\ pc'[t] = "reverse") =>
           (curr'[t] = 0 \/ At(MyBuf(t).dp_parent, curr[t]) = -1)

\* C25 (segment never fails): inside segment every length returned by the
\* three length helpers keeps i + len within n, the cost and parent arrays
\* hold n + 1 entries, every parent is -1 or below its index, and every
\* step of the main loop and of the backtrack moves its position strictly.
C25_NeverFails ==
    /\ [](\A t \in Threads : InSegment(t) => SegmentInBounds(t))
    /\ [][\A t \in Threads : SegmentProgress(t)]_vars

\* a call has returned for a text that ends with a coeng after a consonant
C25_Witness ==
    \E t \in Threads :
        /\ pc[t] = "done"
        /\ Len(MyBuf(t).codepoints) >= 2
        /\ Last(MyBuf(t).codepoints) = COENG
        /\ is_consonant(MyBuf(t).codepoints[Len(MyBuf(t).codepoints) - 1])
        /\ Concat(result[t]) = MyBuf(t).codepoints

====
